---- MODULE Spec2Model ----
(***************************************************************************)
(* Staged bed-calibration workflow (calibration/workflow, calibration/     *)
(* algorithms, calibration/hardware).                                      *)
(*                                                                         *)
(* Heights are exact fixed-point numbers: one millimetre is MM units.  MM  *)
(* is chosen so that every division the pipeline performs on a Rows x Cols *)
(* grid (means over the grid, 2x2 corner blocks, bilinear weights, thermal *)
(* radius ratios) is exact, so the arithmetic below is the arithmetic of   *)
(* the real numbers the floating point code approximates.                  *)
(*                                                                         *)
(* numpy arrays live in a heap (array reference -> contents) so that       *)
(* aliasing and in-place writes (+=, slice +=) are visible.                *)
(***************************************************************************)
EXTENDS Integers, Sequences, FiniteSets, TLC

\* ---------------------------------------------------------------- numbers
Abs(x) == IF x < 0 THEN -x ELSE x
Max2(a, b) == IF a >= b THEN a ELSE b
Min2(a, b) == IF a <= b THEN a ELSE b

\* np.ceil(n / d) for d > 0
CeilDiv(n, d) == IF n >= 0 THEN (n + d - 1) \div d ELSE -((-n) \div d)

RECURSIVE GCD(_, _)
GCD(a, b) == IF b = 0 THEN a ELSE GCD(b, a % b)

\* a rational number in lowest terms, den > 0
Frac(n, d) ==
    LET g == GCD(Abs(n), Abs(d))
        s == IF d < 0 THEN -1 ELSE 1
    IN  [num |-> s * (n \div g), den |-> s * (d \div g)]

\* units per millimetre: 1/100 mm inputs, /NCells (bed mean), /4 (corner
\* block), /16 (bilinear weights), /NCells (tape mean)
MM == 100 * 25 * 4 * 16 * 25
\* 0.01 mm
CENTI == MM \div 100

NoneVal == "None"

\* ---------------------------------------------------------------- the grid
\* BedConfig.mesh_points_x / mesh_points_y
Rows == 5
Cols == 5
Cells == (0 .. Rows - 1) \X (0 .. Cols - 1)
NCells == Rows * Cols

\* row-major enumeration of the grid, as the nested range() loops visit it
CellAt(k) == << (k - 1) \div Cols, (k - 1) % Cols >>

\* Bed.corners (dict order)
CornerNames == << "front_left", "front_right", "back_left", "back_right" >>
corners ==
    [c \in {"front_left", "front_right", "back_left", "back_right"} |->
        CASE c = "front_left"  -> << 0, 0 >>
          [] c = "front_right" -> << 0, Cols - 1 >>
          [] c = "back_left"   -> << Rows - 1, 0 >>
          [] c = "back_right"  -> << Rows - 1, Cols - 1 >>]

\* ---------------------------------------------------------------- arrays
\* the sum of cells lo .. hi (in row-major order) of m
RECURSIVE SumRange(_, _, _)
SumRange(m, lo, hi) ==
    IF lo > hi THEN 0
    ELSE IF lo = hi THEN m[CellAt(lo)]
    ELSE SumRange(m, lo, (lo + hi) \div 2) + SumRange(m, ((lo + hi) \div 2) + 1, hi)

NpSum(m) == SumRange(m, 1, NCells)
\* np.mean over the whole grid
NpMean(m) == NpSum(m) \div NCells
NpMax(m) == CHOOSE v \in {m[c] : c \in Cells} : \A c \in Cells : m[c] <= v
NpMin(m) == CHOOSE v \in {m[c] : c \in Cells} : \A c \in Cells : m[c] >= v

\* a fresh array reference
FreshRef(h) == IF DOMAIN h = {} THEN 1
               ELSE 1 + (CHOOSE r \in DOMAIN h : \A q \in DOMAIN h : q <= r)

\* an ndarray holds numbers: the elementwise expression m is evaluated once,
\* when the array is created
NpArray(m) == IF m = m THEN m ELSE m

\* statements run in program order: InOrder(steps, e) is e, with the values
\* in the tuple steps computed first, left to right (values are otherwise
\* computed on demand, nested in whatever uses them first).  A value bound
\* by a statement and used by the statements after it is passed on as the
\* argument of the operator that models those statements.
InOrder(steps, e) == IF steps = steps THEN e ELSE e

\* a new array holding contents m
NpAlloc(h, m) == [heap |-> h @@ (FreshRef(h) :> NpArray(m)), ref |-> FreshRef(h)]

\* ndarray.copy(): a new array with the same contents
NpCopyAliased(h, a) == [heap |-> h, ref |-> a]
NpCopy(h, a) == NpAlloc(h, h[a])

\* in-place update of the array a (+=)
NpStore(h, a, m) == [h EXCEPT ![a] = NpArray(m)]

\* sorted(items, key=...) for keys (k1, k2): a stable insertion sort of a
\* sequence of records [key |-> <<k1, k2>>, val |-> v]; returns the values
KeyLess(a, b) == a[1] < b[1] \/ (a[1] = b[1] /\ a[2] < b[2])

\* the position of s[i] in the stable order
SortedRank(s, i) ==
    1 + Cardinality({j \in 1 .. Len(s) :
                        \/ KeyLess(s[j].key, s[i].key)
                        \/ (~KeyLess(s[i].key, s[j].key) /\ j < i)})

SortedByRank(items, rank) ==
    InOrder(<< items, rank >>,
        [p \in 1 .. Len(items) |->
            items[CHOOSE i \in 1 .. Len(items) : rank[i] = p].val])

SortedItems(items) ==
    SortedByRank(items, NpArray([i \in 1 .. Len(items) |-> SortedRank(items, i)]))

Sorted(s) == SortedItems(NpArray(s))

\* ---------------------------------------------------------------- Bed
\* BedConfig.size_x / size_y in mm
size_x == 220
size_y == 220

\* Bed.get_corner_height(corner, area_size): mean of the clamped block
get_corner_height(mesh, corner, area_size) ==
    LET x == corners[corner][1]
        y == corners[corner][2]
        x_start == Max2(0, x - area_size)
        x_end == Min2(Rows, x + area_size + 1)
        y_start == Max2(0, y - area_size)
        y_end == Min2(Cols, y + area_size + 1)
        area == (x_start .. x_end - 1) \X (y_start .. y_end - 1)
        total == NpSum([c \in Cells |-> IF c \in area THEN mesh[c] ELSE 0])
    IN  total \div Cardinality(area)

\* Bed.generate_ideal_plane(): the flat plane at the mean of the bed's mesh
generate_ideal_plane(mesh) ==
    LET mean_height == NpMean(mesh) IN NpArray([c \in Cells |-> mean_height])

\* Bed.get_mm_per_point()
get_mm_per_point == << size_x \div (Rows - 1), size_y \div (Cols - 1) >>

\* ---------------------------------------------------------------- Screw
\* Screw.MM_PER_MINUTE = pitch / 60
MM_PER_MINUTE(config) == Frac(config.pitch, 60)

FracMul(a, b) ==
    LET g1 == GCD(Abs(a.num), b.den)
        g2 == GCD(Abs(b.num), a.den)
    IN  [num |-> (a.num \div g1) * (b.num \div g2),
         den |-> (a.den \div g2) * (b.den \div g1)]

\* a / b for b # 0, and min(a, b)
FracDiv(a, b) == FracMul(a, Frac(b.den, b.num))
FracMin(a, b) == IF a.num * b.den <= b.num * a.den THEN a ELSE b

\* an adjustment that is not limited to max_adjust
calculate_adjustment_unclamped(config, current_height, target_height) ==
    IF Abs(current_height - target_height) < config.min_adjust
    THEN [minutes |-> Frac(0, 1), direction |-> "CLOCKWISE"]
    ELSE [minutes |-> FracDiv(Frac(Abs(current_height - target_height), 1),
                              MM_PER_MINUTE(config)),
          direction |-> IF current_height - target_height > 0
                        THEN "CLOCKWISE" ELSE "COUNTERCLOCKWISE"]

\* Screw.calculate_adjustment(current_height, target_height)
\*   -> (minutes, direction); minutes is a rational number of arc minutes
calculate_adjustment(config, current_height, target_height) ==
    LET diff == current_height - target_height
    IN  IF Abs(diff) < config.min_adjust
        THEN [minutes |-> Frac(0, 1), direction |-> "CLOCKWISE"]
        ELSE [minutes |-> FracMin(FracDiv(Frac(Abs(diff), 1), MM_PER_MINUTE(config)),
                                  FracDiv(Frac(config.max_adjust, 1), MM_PER_MINUTE(config))),
              direction |-> IF diff > 0 THEN "CLOCKWISE" ELSE "COUNTERCLOCKWISE"]

\* Screw.minutes_to_degrees
minutes_to_degrees(minutes) == FracMul(minutes, Frac(6, 1))

\* Screw.height_change_from_minutes(minutes, direction), in height units
height_change_from_minutes(config, minutes, direction) ==
    LET p == FracMul(minutes, MM_PER_MINUTE(config))
        height_change == p.num \div p.den
    IN  IF direction = "CLOCKWISE" THEN -height_change ELSE height_change

\* ---------------------------------------------------------------- ScrewSolver
\* denominator of the weight maps: a weight w is stored as w * WDen
WDen == (Rows - 1) * (Cols - 1)

\* ScrewSolver._compute_corner_weights(): bilinear maps, renormalised
BilinearRaw(corner, c) ==
    LET r == c[1]
        k == c[2]
    IN  CASE corner = "front_left"  -> (Rows - 1 - r) * (Cols - 1 - k)
          [] corner = "front_right" -> (Rows - 1 - r) * k
          [] corner = "back_left"   -> r * (Cols - 1 - k)
          [] corner = "back_right"  -> r * k

compute_corner_weights ==
    IF Rows < 2 \/ Cols < 2
    THEN [corner \in DOMAIN corners |-> [c \in Cells |-> WDen]]
    ELSE [corner \in DOMAIN corners |->
            [c \in Cells |->
                LET total_weight ==
                        BilinearRaw("front_left", c) + BilinearRaw("front_right", c)
                        + BilinearRaw("back_left", c) + BilinearRaw("back_right", c)
                IN  IF total_weight # 0
                    THEN (BilinearRaw(corner, c) * WDen) \div total_weight
                    ELSE 0]]

\* ScrewSolver._calculate_priority(deviation)
solver_calculate_priority(deviation) ==
    IF deviation > 40 * CENTI THEN 1
    ELSE IF deviation > 30 * CENTI THEN 2
    ELSE IF deviation > 20 * CENTI THEN 3
    ELSE 4

\* the ScrewAdjustment of one corner, given the (minutes, direction) adj its
\* screw calculated: a sequence, empty when minutes is 0
ScrewAdjustmentOf(corner, current_height, target_height, adj) ==
    IF InOrder(<< current_height, target_height, adj >>, adj.minutes.num > 0)
    THEN << [corner |-> corner,
          minutes |-> adj.minutes,
          degrees |-> minutes_to_degrees(adj.minutes),
          direction |-> adj.direction,
          current_height |-> current_height,
          target_height |-> target_height,
          priority |-> solver_calculate_priority(Abs(current_height - target_height)),
          turns |-> FracMul(adj.minutes, Frac(1, 60))] >>
    ELSE << >>

ScrewAdjustmentAt(config, corner, current_height, target_height) ==
    ScrewAdjustmentOf(corner, current_height, target_height,
                      calculate_adjustment(config, current_height, target_height))

ScrewAdjustmentFor(config, bed_mesh, ideal_plane, corner) ==
    ScrewAdjustmentAt(config, corner, get_corner_height(bed_mesh, corner, 1),
                      ideal_plane[corners[corner]])

\* the adjustments that were appended, in order
AppendedOf(each) == [i \in 1 .. Len(each) |-> each[i][1]]

\* the loop over self.bed.corners, appending the adjustments that are made
AdjustmentsFound(config, bed_mesh, ideal_plane) ==
    AppendedOf(SelectSeq([k \in 1 .. Len(CornerNames) |->
                            ScrewAdjustmentFor(config, bed_mesh, ideal_plane, CornerNames[k])],
                         LAMBDA a : a # << >>))

\* key=lambda x: (x.priority, -abs(x.current_height - x.target_height))
AdjustmentKey(a) == << a.priority, -Abs(a.current_height - a.target_height) >>

\* the adjustments left in the order of the corners
SortedAdjustmentsUnsorted(found) == found

\* ScrewSolver.calculate_adjustments(ideal_plane): reads the bed's mesh
SortedAdjustments(found) ==
    InOrder(<< found >>,
        Sorted([i \in 1 .. Len(found) |->
                  [key |-> AdjustmentKey(found[i]), val |-> found[i]]]))

calculate_adjustments(config, bed_mesh, ideal_plane) ==
    SortedAdjustments(NpArray(AdjustmentsFound(config, bed_mesh, ideal_plane)))

\* an update that overwrites the cells a corner influences
AddWeightedOverwriting(new_mesh, height_change, weight_map) ==
    [heap |-> NpStore(new_mesh.heap, new_mesh.ref,
                     [p \in Cells |-> IF weight_map[p] # 0
                                      THEN (height_change * weight_map[p]) \div WDen
                                      ELSE new_mesh.heap[new_mesh.ref][p]]),
     ref |-> new_mesh.ref]

\* ScrewSolver.simulate_adjustment(adjustment, base_mesh): copy, then +=
\* new_mesh += height_change * self.corner_weights[adjustment.corner]
AddWeighted(new_mesh, height_change, weight_map) ==
    [heap |-> NpStore(new_mesh.heap, new_mesh.ref,
                     [p \in Cells |-> new_mesh.heap[new_mesh.ref][p]
                                        + (height_change * weight_map[p]) \div WDen]),
     ref |-> new_mesh.ref]

simulate_adjustment(h, config, weights, adjustment, base_ref) ==
    AddWeighted(NpCopy(h, base_ref),
                height_change_from_minutes(config, adjustment.minutes, adjustment.direction),
                weights[adjustment.corner])

\* the loop of simulate_sequence from adjustment k on, simulated holding the
\* mesh so far
RECURSIVE SimulateFrom(_, _, _, _, _)
SimulateFrom(simulated, config, weights, adjustments, k) ==
    IF k > Len(adjustments) THEN simulated
    ELSE InOrder(<< simulated >>,
             SimulateFrom(simulate_adjustment(simulated.heap, config, weights,
                                              adjustments[k], simulated.ref),
                          config, weights, adjustments, k + 1))

\* ScrewSolver.simulate_sequence(adjustments, base_mesh)
simulate_sequence(h, config, weights, adjustments, base_ref) ==
    SimulateFrom(NpCopy(h, base_ref), config, weights, adjustments, 1)

\* np.max(np.abs(mesh - np.mean(mesh))), exactly
MaxAbsFromMean(m) == Frac(NpMax([c \in Cells |-> Abs(NCells * m[c] - NpSum(m))]), NCells)

ImprovementOf(current_deviation, simulated_deviation) ==
    Frac(current_deviation.num * simulated_deviation.den
            - simulated_deviation.num * current_deviation.den,
         current_deviation.den * simulated_deviation.den)

\* ScrewSolver.estimate_total_improvement(adjustments)
ImprovementBetween(current_mesh, simulated) ==
    ImprovementOf(MaxAbsFromMean(current_mesh),
                  MaxAbsFromMean(simulated.heap[simulated.ref]))

estimate_total_improvement(h, config, weights, adjustments, bed_ref) ==
    ImprovementBetween(h[bed_ref], simulate_sequence(h, config, weights, adjustments, bed_ref))

\* ---------------------------------------------------------------- TapeCalculator
\* sum(s) and the product of s[lo .. hi], by halves
RECURSIVE SeqSumRange(_, _, _)
SeqSumRange(s, lo, hi) ==
    IF lo > hi THEN 0
    ELSE IF lo = hi THEN s[lo]
    ELSE SeqSumRange(s, lo, (lo + hi) \div 2) + SeqSumRange(s, ((lo + hi) \div 2) + 1, hi)

SeqSum(s) == SeqSumRange(s, 1, Len(s))

RECURSIVE SeqProdRange(_, _, _)
SeqProdRange(s, lo, hi) ==
    IF lo > hi THEN 1
    ELSE IF lo = hi THEN s[lo]
    ELSE SeqProdRange(s, lo, (lo + hi) \div 2) * SeqProdRange(s, ((lo + hi) \div 2) + 1, hi)

\* the sum of the rationals of s, over their common denominator
FracOver(items, den) ==
    InOrder(<< den >>,
        Frac(SeqSum([i \in 1 .. Len(items) |-> items[i].num * (den \div items[i].den)]),
             den))

FracSumOf(items) ==
    InOrder(<< items >>,
        FracOver(items, SeqProdRange([i \in 1 .. Len(items) |-> items[i].den],
                                     1, Len(items))))

FracSum(s) == FracSumOf(NpArray(s))

\* TapeCalculator._calculate_priority(height_diff)
tape_calculate_priority(height_diff) ==
    IF height_diff > 30 * CENTI THEN 1
    ELSE IF height_diff > 20 * CENTI THEN 2
    ELSE 3

\* TapeCalculator._is_near_screw(x, y)
is_near_screw(x, y) == \E corner \in DOMAIN corners : corners[corner] = << x, y >>

\* TapeCalculator._calculate_area_size, in units of 0.5 mm^2 (so that the
\* factor 1.5 stays exact)
calculate_area_size(height_diff) ==
    LET base_area == get_mm_per_point[1] * get_mm_per_point[2]
    IN  IF height_diff > 30 * CENTI THEN 3 * base_area ELSE 2 * base_area

\* a TapeSpot whose layer count is rounded to the nearest whole layer
LowSpotAtRounded(tc, mesh, mean_height, k) ==
    [x |-> CellAt(k)[1], y |-> CellAt(k)[2],
     layers |-> Max2(1, (2 * (mean_height - mesh[CellAt(k)]) + tc.tape_thickness)
                            \div (2 * tc.tape_thickness)),
     height_diff |-> Frac(mean_height - mesh[CellAt(k)], 1),
     priority |-> tape_calculate_priority(mean_height - mesh[CellAt(k)]),
     area_size |-> calculate_area_size(mean_height - mesh[CellAt(k)])]

\* the TapeSpot find_low_spots builds for the k-th cell when it is low
LowSpotAt(tc, mesh, mean_height, k) ==
    LET x == CellAt(k)[1]
        y == CellAt(k)[2]
        diff == mean_height - mesh[CellAt(k)]
    IN  [x |-> x, y |-> y,
         layers |-> Max2(1, CeilDiv(diff, tc.tape_thickness)),
         height_diff |-> Frac(diff, 1),
         priority |-> tape_calculate_priority(diff),
         area_size |-> calculate_area_size(diff)]

\* a test that also takes the cells just at the threshold
IsLowSpotAtThreshold(tc, spot) ==
    /\ ~is_near_screw(spot.x, spot.y)
    /\ spot.height_diff.num >= tc.min_height_diff

\* not self._is_near_screw(x, y) and height_diff > self.min_height_diff
IsLowSpot(tc, spot) ==
    /\ ~is_near_screw(spot.x, spot.y)
    /\ spot.height_diff.num > tc.min_height_diff

\* sorted(spots, key=lambda s: (s.priority, -s.height_diff))
SortedSpots(spots) ==
    InOrder(<< spots >>,
        Sorted([i \in 1 .. Len(spots) |->
                  [key |-> << spots[i].priority, -spots[i].height_diff.num >>,
                   val |-> spots[i]]]))

LowSpotsBelow(tc, mesh, mean_height) ==
    InOrder(<< mean_height >>,
        SortedSpots(SelectSeq([k \in 1 .. NCells |-> LowSpotAt(tc, mesh, mean_height, k)],
                              LAMBDA spot : IsLowSpot(tc, spot))))

\* TapeCalculator.find_low_spots(simulated_mesh): the cells are visited in
\* row-major order
find_low_spots(tc, mesh) == LowSpotsBelow(tc, mesh, NpMean(mesh))

\* min(nearby, key=|x - mean x| + |y - mean y|): the first minimal element
\* (distances are compared multiplied by len(nearby))
ClusterCenter(nearby) ==
    LET n == Len(nearby)
        sx == SeqSum([i \in 1 .. n |-> nearby[i].x])
        sy == SeqSum([i \in 1 .. n |-> nearby[i].y])
        dist(i) == Abs(n * nearby[i].x - sx) + Abs(n * nearby[i].y - sy)
        best == CHOOSE i \in 1 .. n :
                    /\ \A j \in 1 .. n : dist(i) <= dist(j)
                    /\ \A j \in 1 .. i - 1 : dist(j) > dist(i)
    IN  nearby[best]

MinPriority(nearby) ==
    CHOOSE p \in {nearby[i].priority : i \in 1 .. Len(nearby)} :
        \A i \in 1 .. Len(nearby) : p <= nearby[i].priority

\* np.mean([s.height_diff for s in nearby])
AvgDiffOf(total, n) == Frac(total.num, total.den * n)
AvgDiff(nearby) ==
    AvgDiffOf(FracSum([i \in 1 .. Len(nearby) |-> nearby[i].height_diff]), Len(nearby))

\* the TapeSpot that replaces the spots of nearby
MergedSpot(tc, nearby, center, avg_diff) ==
    [x |-> center.x, y |-> center.y,
     layers |-> Max2(1, CeilDiv(avg_diff.num, avg_diff.den * tc.tape_thickness)),
     height_diff |-> avg_diff,
     priority |-> MinPriority(nearby),
     area_size |-> SeqSum([i \in 1 .. Len(nearby) |-> nearby[i].area_size])]

\* one pass of the loop body for a spot that is not yet used, given the
\* spots nearby; done is [optimized, used]
OptimizeNearby(tc, spot, done, nearby) ==
    IF nearby # << >>
    THEN [optimized |->
              Append(done.optimized,
                     MergedSpot(tc, nearby,
                                IF Len(nearby) > 1 THEN ClusterCenter(nearby) ELSE spot,
                                AvgDiff(nearby))),
          used |-> done.used \cup {<< nearby[i].x, nearby[i].y >> : i \in 1 .. Len(nearby)}]
    ELSE [optimized |-> Append(done.optimized, spot),
          used |-> done.used \cup {<< spot.x, spot.y >>}]

\* a variant that gathers the nearby spots without looking at used
OptimizeSpotReusing(tc, spots, spot, done) ==
    OptimizeNearby(tc, spot, done,
        SelectSeq(spots, LAMBDA s : /\ Abs(s.x - spot.x) <= 1
                                     /\ Abs(s.y - spot.y) <= 1))

OptimizeSpot(tc, spots, spot, done) ==
    OptimizeNearby(tc, spot, done,
        SelectSeq(spots, LAMBDA s : /\ Abs(s.x - spot.x) <= 1
                                     /\ Abs(s.y - spot.y) <= 1
                                     /\ << s.x, s.y >> \notin done.used))

\* the positions from k on whose spot is not in used
UnusedFrom(spots, k, used) ==
    {j \in k .. Len(spots) : << spots[j].x, spots[j].y >> \notin used}

FirstOf(unused) == CHOOSE j \in unused : \A q \in unused : j <= q

\* the loop over spots from position k on; spots already in used are
\* skipped (continue), so each step handles the next spot not yet used
RECURSIVE OptimizeFrom(_, _, _, _)
OptimizeFrom(tc, spots, k, done) ==
    IF InOrder(<< done >>, UnusedFrom(spots, k, done.used) = {})
    THEN done.optimized
    ELSE OptimizeFrom(tc, spots, FirstOf(UnusedFrom(spots, k, done.used)) + 1,
                      OptimizeSpot(tc, spots,
                                   spots[FirstOf(UnusedFrom(spots, k, done.used))], done))

\* TapeCalculator.optimize_tape_layout(spots)
optimize_tape_layout(tc, spots) ==
    OptimizeFrom(tc, spots, 1, [optimized |-> << >>, used |-> {}])

\* the slice simulated_mesh[x_start:x_end, y_start:y_end] of one spot
SpotArea(spot) ==
    (Max2(0, spot.x - 1) .. Min2(Rows, spot.x + 2) - 1)
        \X (Max2(0, spot.y - 1) .. Min2(Cols, spot.y + 2) - 1)

\* a variant that assigns the increase to the slice instead of adding it
AddToAreaAssigning(h, ref, area, height_increase) ==
    NpStore(h, ref, [p \in Cells |-> IF p \in area THEN height_increase ELSE h[ref][p]])

\* simulated_mesh[x_start:x_end, y_start:y_end] += height_increase
AddToArea(h, ref, area, height_increase) ==
    NpStore(h, ref, [p \in Cells |-> IF p \in area THEN h[ref][p] + height_increase
                                      ELSE h[ref][p]])

RECURSIVE ApplySpotsFrom(_, _, _, _, _)
ApplySpotsFrom(h, tc, spots, k, ref) ==
    IF k > Len(spots) THEN h
    ELSE InOrder(<< h >>,
             ApplySpotsFrom(AddToArea(h, ref, SpotArea(spots[k]),
                                      spots[k].layers * tc.tape_thickness),
                            tc, spots, k + 1, ref))

\* TapeCalculator.apply_spots(base_mesh, spots): copy, then slice +=
AppliedTo(simulated_mesh, tc, spots) ==
    [heap |-> ApplySpotsFrom(simulated_mesh.heap, tc, spots, 1, simulated_mesh.ref),
     ref |-> simulated_mesh.ref]

apply_spots(h, tc, base_ref, spots) == AppliedTo(NpCopy(h, base_ref), tc, spots)

\* ---------------------------------------------------------------- stage calculators
\* gains of the front and rear Z-shafts, in tenths (1.6 and 0.4)
FRONT_SHAFT_GAIN == 16
BACK_SHAFT_GAIN == 4

\* dict.get(key, default) on a settings group
Get(d, key, default) == IF key \in DOMAIN d THEN d[key] ELSE default

\* compute_stage_deviation(mesh) = max - min
compute_stage_deviation_from_mean(m) == NpMax(m) - NpMean(m)
compute_stage_deviation(m) == NpMax(m) - NpMin(m)

\* compute_initial_stage(mesh)
InitialStageOf(deviation, stored) ==
    [heap |-> stored.heap,
     stage |-> [key |-> "initial",
                label |-> "visual_rec.stage_initial",
                enabled |-> TRUE,
                deviation |-> deviation,
                baseline |-> NoneVal,
                mesh |-> stored.ref,
                actions |-> << >>,
                warnings |-> << >>]]

compute_initial_stage(h, mesh_ref) ==
    InitialStageOf(compute_stage_deviation(h[mesh_ref]), NpCopy(h, mesh_ref))

\* integer square root, for np.hypot in the falloff maps
RECURSIVE ISqrtBetween(_, _, _)
ISqrtBetween(v, low, high) ==
    IF low = high THEN low
    ELSE IF ((low + high + 1) \div 2) * ((low + high + 1) \div 2) <= v
         THEN ISqrtBetween(v, (low + high + 1) \div 2, high)
         ELSE ISqrtBetween(v, low, ((low + high + 1) \div 2) - 1)

ISqrt(v) == ISqrtBetween(v, 0, 46340)

\* the smooth falloff map of one corner, rounded to 1/1000 before the final
\* division by its maximum (calculators.py, lines 60-86)
FalloffRaw(corner, c) ==
    LET dx == c[1] - corners[corner][1]
        dy == c[2] - corners[corner][2]
        dist == ISqrt(1000000 * (dx * dx + dy * dy))
        falloff == 1000000 \div (1000 + dist)
        vertical_bias == 1000 - (600 * c[1]) \div (Rows - 1)
        horizontal_left == 1000 - (400 * c[2]) \div (Cols - 1)
        horizontal_right == 1000 - (400 * (Cols - 1 - c[2])) \div (Cols - 1)
    IN  IF corner \in {"front_left", "front_right"}
        THEN (((falloff * vertical_bias) \div 1000)
                * (IF corner = "front_left" THEN horizontal_left ELSE horizontal_right))
                \div 1000
        ELSE (falloff * 7) \div 10

FalloffWeights ==
    [corner \in DOMAIN corners |->
        LET raw == [c \in Cells |-> FalloffRaw(corner, c)]
            max_val == NpMax(raw)
        IN  [c \in Cells |-> IF max_val # 0 THEN (raw[c] * WDen) \div max_val ELSE raw[c]]]

\* variants that leave other maps on the solver: the falloff maps, or the
\* solver's maps halved
build_corner_weights_replacing(solver_weights) ==
    [weights |-> solver_weights, solver |-> FalloffWeights]

build_corner_weights_halving(solver_weights) ==
    [weights |-> solver_weights,
     solver |-> [corner \in DOMAIN solver_weights |->
                    [c \in Cells |-> solver_weights[corner][c] \div 2]]]

\* _build_corner_weights(solver): the solver's own maps when it has any,
\* else falloff maps which are also stored on the solver
build_corner_weights(solver_weights) ==
    IF DOMAIN solver_weights # {}
    THEN [weights |-> solver_weights, solver |-> solver_weights]
    ELSE [weights |-> FalloffWeights, solver |-> FalloffWeights]

\* _normalise_mesh_load(base_mesh, adjusted_mesh): returns adjusted_mesh
\* itself when the mean shift is below 1e-9 mm (less than one height unit),
\* else a new array
normalise_mesh_load_unbalanced(h, base_ref, adjusted_ref) == [heap |-> h, ref |-> adjusted_ref]
normalise_mesh_load(h, base_ref, adjusted_ref) ==
    LET offset == NpMean([c \in Cells |-> h[adjusted_ref][c] - h[base_ref][c]])
    IN  IF Abs(offset) < 1
        THEN [heap |-> h, ref |-> adjusted_ref]
        ELSE NpAlloc(h, [c \in Cells |-> h[adjusted_ref][c] - offset])

\* a StageResult that was switched off: the input mesh is stored as a copy
\* and handed on as it is
DisabledStageOf(key, label, baseline, mesh_in, stored) ==
    [heap |-> stored.heap,
     stage |-> [key |-> key,
                label |-> label,
                enabled |-> FALSE,
                deviation |-> baseline,
                baseline |-> baseline,
                mesh |-> stored.ref,
                actions |-> << >>,
                warnings |-> << "visual_rec.stage_disabled" >>],
     mesh |-> mesh_in]

\* a StageResult of an enabled stage: mesh_after is stored as a copy and
\* handed on
EnabledStageOf(key, label, baseline, deviation_after, actions, no_actions_warning, mesh_after, stored) ==
    [heap |-> stored.heap,
     stage |-> [key |-> key,
                label |-> label,
                enabled |-> TRUE,
                deviation |-> deviation_after,
                baseline |-> baseline,
                mesh |-> stored.ref,
                actions |-> actions,
                warnings |-> IF actions = << >> THEN << no_actions_warning >> ELSE << >>],
     mesh |-> mesh_after.ref]

\* a variant that always moves the belt by one tooth
BeltActionOneTooth(identifier, label, direction, teeth, tooth_mm, sign, gain, raw, bias) ==
    [kind |-> "belt",
     identifier |-> identifier,
     label |-> label,
     direction |-> direction,
     magnitude_mm |-> tooth_mm,
     teeth |-> 1,
     metadata |-> [sign |-> sign, gain |-> gain, raw_difference |-> raw,
                   load_bias |-> bias]]

BeltAction(identifier, label, direction, teeth, tooth_mm, sign, gain, raw, bias) ==
    [kind |-> "belt",
     identifier |-> identifier,
     label |-> label,
     direction |-> direction,
     magnitude_mm |-> teeth * tooth_mm,
     teeth |-> teeth,
     metadata |-> [sign |-> sign, gain |-> gain, raw_difference |-> raw,
                   load_bias |-> bias]]

\* _calculate_belt_adjustments(bed, solver, threshold, tooth_mm): reads the
\* bed's mesh; the dict is returned as the sequence of its values in
\* insertion order (front action, then back action)
calculate_belt_adjustments(mesh, threshold, tooth_mm) ==
    LET left_front == mesh[<< 0, 0 >>]
        right_front == mesh[<< 0, Cols - 1 >>]
        back_center == mesh[<< Rows - 1, Cols \div 2 >>]
        lr_diff == right_front - left_front
        \* back_center - (left_front + right_front) / 2, doubled
        back_diff2 == 2 * back_center - (left_front + right_front)
        target_corner == IF lr_diff > 0 THEN "front_left" ELSE "front_right"
        front ==
            IF Abs(lr_diff) > threshold
            THEN << BeltAction(target_corner, "visual_rec." \o target_corner, "up",
                               Max2(1, CeilDiv(Abs(lr_diff), tooth_mm)), tooth_mm,
                               1, FRONT_SHAFT_GAIN, Frac(lr_diff, 1), "front") >>
            ELSE << >>
        back ==
            IF Abs(back_diff2) > 2 * threshold
            THEN << BeltAction("back", "visual_rec.back_center",
                               IF back_diff2 < 0 THEN "up" ELSE "down",
                               Max2(1, CeilDiv(Abs(back_diff2), 2 * tooth_mm)), tooth_mm,
                               IF back_diff2 < 0 THEN 1 ELSE -1,
                               BACK_SHAFT_GAIN, Frac(back_diff2, 2), "support") >>
            ELSE << >>
    IN  front \o back

\* the influence map a belt action is spread through
BeltInfluence(weights, identifier) ==
    IF identifier = "back"
    THEN [c \in Cells |-> weights["back_left"][c] + weights["back_right"][c]]
    ELSE weights[identifier]

\* apply_to_corner(delta_mm, influence): result = result + delta_mm * scaled,
\* a new array; top is influence.max()
ApplyToCorner(result, delta, influence, top) ==
    NpAlloc(result.heap,
        [c \in Cells |->
            result.heap[result.ref][c]
            + (IF top # 0 THEN (delta * influence[c]) \div top
               ELSE (delta * influence[c]) \div WDen)])

ApplyBeltAction(result, action, influence) ==
    ApplyToCorner(result,
                  (action.magnitude_mm * action.metadata.sign * action.metadata.gain) \div 10,
                  influence, NpMax(influence))

\* the loop over actions from the k-th on, result being the array built so far
RECURSIVE ApplyBeltFrom(_, _, _, _)
ApplyBeltFrom(result, weights, actions, k) ==
    IF k > Len(actions) THEN result
    ELSE InOrder(<< result >>,
             ApplyBeltFrom(ApplyBeltAction(result, actions[k],
                                           BeltInfluence(weights, actions[k].identifier)),
                           weights, actions, k + 1))

\* np.max(delta) - np.min(delta)
SpreadOf(delta) == NpMax(delta) - NpMin(delta)

\* the value _apply_belt_adjustments returns; the actions now carry
\* removed_offset and load_range, the solver its weight maps
BeltApplied(actions, built, offset_removed, load_range, balanced) ==
    InOrder(<< offset_removed, load_range >>,
        [heap |-> balanced.heap,
         ref |-> balanced.ref,
         actions |->
            [i \in 1 .. Len(actions) |->
               [actions[i] EXCEPT !.metadata =
                   [sign |-> @.sign, gain |-> @.gain,
                    raw_difference |-> @.raw_difference, load_bias |-> @.load_bias,
                    removed_offset |-> offset_removed, load_range |-> load_range]]],
         solver |-> built.solver])

BeltBalanced(base_ref, actions, built, offset_removed, balanced) ==
    InOrder(<< offset_removed, balanced >>,
        BeltApplied(actions, built, offset_removed,
                    SpreadOf(NpArray([c \in Cells |-> balanced.heap[balanced.ref][c]
                                                      - balanced.heap[base_ref][c]])),
                    balanced))

BeltSpread(base_ref, actions, built, result) ==
    InOrder(<< result >>,
        BeltBalanced(base_ref, actions, built,
                     NpMean([c \in Cells |-> result.heap[result.ref][c]
                                             - result.heap[base_ref][c]]),
                     normalise_mesh_load(result.heap, base_ref, result.ref)))

BeltWeighted(h, base_ref, actions, built) ==
    BeltSpread(base_ref, actions, built,
               ApplyBeltFrom(NpCopy(h, base_ref), built.weights, actions, 1))

BeltUntouched(actions, solver_weights, copy) ==
    [heap |-> copy.heap, ref |-> copy.ref, actions |-> actions, solver |-> solver_weights]

\* _apply_belt_adjustments(base_mesh, solver, actions)
apply_belt_adjustments(h, solver_weights, base_ref, actions) ==
    IF actions = << >>
    THEN BeltUntouched(actions, solver_weights, NpCopy(h, base_ref))
    ELSE BeltWeighted(h, base_ref, actions, build_corner_weights(solver_weights))

\* the rest of build_belt_stage once the adjustments are applied
BeltStageOf(baseline, applied) ==
    InOrder(<< baseline, applied >>,
        EnabledStageOf("after_belts", "visual_rec.belt_stage_title", baseline,
                       compute_stage_deviation(applied.heap[applied.ref]),
                       applied.actions, "visual_rec.belt_no_adjustments",
                       applied, NpCopy(applied.heap, applied.ref))
        @@ [solver |-> applied.solver])

\* build_belt_stage(bed, solver, settings, mesh_before, enabled_flag)
\*   -> (stage, mesh handed on); also the solver's weight maps afterwards
build_belt_stage(h, bed_ref, solver_weights, settings, mesh_before, enabled_flag) ==
    IF ~enabled_flag
    THEN DisabledStageOf("after_belts", "visual_rec.belt_stage_title",
                         compute_stage_deviation(h[mesh_before]), mesh_before,
                         NpCopy(h, mesh_before))
         @@ [solver |-> solver_weights]
    ELSE BeltStageOf(compute_stage_deviation(h[mesh_before]),
             apply_belt_adjustments(h, solver_weights, mesh_before,
                 calculate_belt_adjustments(
                     h[bed_ref],
                     Get(settings.thresholds, "belt_threshold",
                         settings.thresholds.screw_threshold),
                     Get(settings.hardware, "belt_tooth_mm", 40 * CENTI))))

\* _build_screw_actions(adjustments)
build_screw_actions(adjustments) ==
    [i \in 1 .. Len(adjustments) |->
        [kind |-> "screw",
         identifier |-> adjustments[i].corner,
         label |-> "visual_rec." \o adjustments[i].corner,
         direction |-> IF adjustments[i].direction = "COUNTERCLOCKWISE"
                       THEN "counterclockwise" ELSE "clockwise",
         minutes |-> adjustments[i].minutes,
         degrees |-> adjustments[i].degrees,
         magnitude_mm |-> Abs(adjustments[i].current_height - adjustments[i].target_height),
         metadata |-> [turns |-> adjustments[i].turns]]]

\* the rest of build_screw_stage once mesh_after is simulated
ScrewStageOf(baseline, adjustments, mesh_after) ==
    InOrder(<< baseline, adjustments, mesh_after >>,
        EnabledStageOf("after_screws", "visual_rec.screw_header", baseline,
                       compute_stage_deviation(mesh_after.heap[mesh_after.ref]),
                       build_screw_actions(adjustments), "visual_rec.screw_no_adjustments",
                       mesh_after, NpCopy(mesh_after.heap, mesh_after.ref)))

ScrewStageWith(h, config, solver_weights, base_mesh, baseline, adjustments) ==
    ScrewStageOf(baseline, adjustments,
                 IF adjustments # << >>
                 THEN simulate_sequence(h, config, solver_weights, adjustments, base_mesh)
                 ELSE NpCopy(h, base_mesh))

\* build_screw_stage(analyzer, solver, base_mesh, enabled_flag); the
\* adjustments are solver.calculate_adjustments(analyzer.get_ideal_plane()),
\* both of which read the bed's mesh
build_screw_stage(h, bed_ref, config, solver_weights, base_mesh, enabled_flag) ==
    IF ~enabled_flag
    THEN DisabledStageOf("after_screws", "visual_rec.screw_header",
                         compute_stage_deviation(h[base_mesh]), base_mesh,
                         NpCopy(h, base_mesh))
    ELSE ScrewStageWith(h, config, solver_weights, base_mesh,
                        compute_stage_deviation(h[base_mesh]),
                        calculate_adjustments(config, h[bed_ref],
                                              generate_ideal_plane(h[bed_ref])))

\* _build_tape_actions(spots, tape_thickness); the position label "<row+1><A..>"
\* is kept as the pair (x + 1, y)
build_tape_actions(spots, tape_thickness) ==
    [i \in 1 .. Len(spots) |->
        [kind |-> "tape",
         identifier |-> << spots[i].x + 1, spots[i].y >>,
         label |-> << spots[i].x + 1, spots[i].y >>,
         magnitude_mm |-> spots[i].height_diff,
         metadata |-> [layers |-> spots[i].layers,
                       thickness |-> spots[i].layers * tape_thickness]]]

\* the rest of build_tape_stage once mesh_after is simulated
TapeStageOf(baseline, spots, tape_thickness, mesh_after) ==
    InOrder(<< baseline, spots, mesh_after >>,
        EnabledStageOf("after_tape", "visual_rec.tape_header", baseline,
                       compute_stage_deviation(mesh_after.heap[mesh_after.ref]),
                       build_tape_actions(spots, tape_thickness),
                       "visual_rec.tape_no_adjustments",
                       mesh_after, NpCopy(mesh_after.heap, mesh_after.ref)))

TapeStageWith(h, tc, base_mesh, tape_thickness, baseline, spots) ==
    TapeStageOf(baseline, spots, tape_thickness,
                IF spots # << >> THEN apply_spots(h, tc, base_mesh, spots)
                ELSE NpCopy(h, base_mesh))

\* build_tape_stage(tape_calculator, base_mesh, settings, enabled_flag)
build_tape_stage(h, tc, base_mesh, settings, enabled_flag) ==
    IF ~enabled_flag
    THEN DisabledStageOf("after_tape", "visual_rec.tape_header",
                         compute_stage_deviation(h[base_mesh]), base_mesh,
                         NpCopy(h, base_mesh))
    ELSE TapeStageWith(h, tc, base_mesh, settings.hardware.tape_thickness,
                       compute_stage_deviation(h[base_mesh]),
                       optimize_tape_layout(tc, find_low_spots(tc, h[base_mesh])))

\* radius_sq of a grid point from the bed centre, and max_radius_sq (mm^2)
RadiusSq(c) ==
    LET X == c[1] * get_mm_per_point[1] - size_x \div 2
        Y == c[2] * get_mm_per_point[2] - size_y \div 2
    IN  X * X + Y * Y

MaxRadiusSq == (size_x \div 2) * (size_x \div 2) + (size_y \div 2) * (size_y \div 2)

\* warp - float(np.mean(warp)), added to the mesh as a new array
AddCentred(h, mesh_ref, raw, raw_mean) ==
    NpAlloc(h, [c \in Cells |-> h[mesh_ref][c] + (raw[c] - raw_mean)])

AddWarp(h, mesh_ref, raw) == AddCentred(h, mesh_ref, raw, NpMean(raw))

\* the fallback branch for a temperature change delta_temp
WarpedBy(h, mesh_ref, expansion_coeff, delta_temp) ==
    IF delta_temp = 0
    THEN NpCopy(h, mesh_ref)
    ELSE IF expansion_coeff = 0 \/ MaxRadiusSq <= 0
         THEN NpCopy(h, mesh_ref)
         ELSE AddWarp(h, mesh_ref,
                      NpArray([c \in Cells |->
                                  (expansion_coeff * delta_temp * RadiusSq(c))
                                      \div MaxRadiusSq]))

\* _apply_temperature_effect(bed, mesh, env_settings, thermal_model) for a
\* settings record without a thermal_model group: chamber_factor is 0 and
\* alpha_pei = alpha_steel, so neither curvature term applies and the warp
\* is the single-coefficient fallback (lines 475-498).  Temperatures are
\* whole degrees; thermal_expansion_coeff is in height units per degree.
apply_temperature_effect(h, mesh_ref, env_settings) ==
    WarpedBy(h, mesh_ref,
             Get(env_settings, "thermal_expansion_coeff", 0),
             Get(env_settings, "target_temp", Get(env_settings, "measurement_temp", 25))
                 - Get(env_settings, "measurement_temp", 25))

\* the StageResult of the temperature stage; enabled is
\* enabled_flag and abs(deviation_after - baseline) > 1e-6 mm
TemperatureStageOf(baseline, deviation_after, enabled, mesh_after, stored) ==
    [heap |-> stored.heap,
     stage |-> [key |-> "after_temperature",
                label |-> "visual_rec.stage_temperature",
                enabled |-> enabled,
                deviation |-> deviation_after,
                baseline |-> baseline,
                mesh |-> stored.ref,
                actions |-> << >>,
                warnings |-> IF ~enabled
                             THEN << "visual_rec.temperature_no_adjustments" >>
                             ELSE << >>],
     mesh |-> mesh_after.ref]

\* a variant that enables the stage whenever the caller's flag is set
TemperatureStageAtFlagOnly(enabled_flag, baseline, deviation_after, mesh_after) ==
    InOrder(<< baseline, deviation_after >>,
        TemperatureStageOf(baseline, deviation_after, enabled_flag,
                           mesh_after, NpCopy(mesh_after.heap, mesh_after.ref)))

TemperatureStageAt(enabled_flag, baseline, deviation_after, mesh_after) ==
    InOrder(<< baseline, deviation_after >>,
        TemperatureStageOf(baseline, deviation_after,
                           enabled_flag /\ Abs(deviation_after - baseline) > MM \div 1000000,
                           mesh_after, NpCopy(mesh_after.heap, mesh_after.ref)))

TemperatureStageWith(enabled_flag, baseline, mesh_after) ==
    InOrder(<< mesh_after >>,
        TemperatureStageAt(enabled_flag, baseline,
                           compute_stage_deviation(mesh_after.heap[mesh_after.ref]),
                           mesh_after))

\* build_temperature_stage(bed, base_mesh, env_settings, enabled_flag)
build_temperature_stage(h, base_mesh, env_settings, enabled_flag) ==
    TemperatureStageWith(enabled_flag, compute_stage_deviation(h[base_mesh]),
                         apply_temperature_effect(h, base_mesh, env_settings))

\* ---------------------------------------------------------------- engine
DEFAULT_WORKFLOW_FLAGS ==
    [k \in {"enable_belt", "enable_screws", "enable_tape"} |-> TRUE]

\* {**DEFAULT_WORKFLOW_FLAGS, **settings.get('workflow', {})}
WorkflowFlagsDefault(settings) == DEFAULT_WORKFLOW_FLAGS
WorkflowFlags(settings) ==
    LET given == Get(settings, "workflow", << >>)
    IN  [k \in DOMAIN DEFAULT_WORKFLOW_FLAGS \cup DOMAIN given |->
            IF k \in DOMAIN given THEN given[k] ELSE DEFAULT_WORKFLOW_FLAGS[k]]

\* min(candidates, key=deviation): the key of the first stage of least
\* deviation
MinByDeviation(candidates) ==
    LET n == Len(candidates)
        best == CHOOSE i \in 1 .. n :
                    /\ \A j \in 1 .. n : candidates[i].deviation <= candidates[j].deviation
                    /\ \A j \in 1 .. i - 1 : candidates[j].deviation > candidates[i].deviation
    IN  candidates[best].key

\* VisualRecommendationsDialog._best_stage over workflow.stages
ui_best_stage(stages) ==
    LET actionable == SelectSeq(stages, LAMBDA st :
                          st.key # "initial" /\ st.enabled /\ st.actions # << >>)
        candidates == SelectSeq(stages, LAMBDA st : st.key # "initial" /\ st.enabled)
        others == SelectSeq(stages, LAMBDA st : st.key # "initial")
    IN  IF actionable # << >> THEN MinByDeviation(actionable)
        ELSE IF candidates # << >> THEN MinByDeviation(candidates)
        ELSE IF others # << >> THEN others[1].key
        ELSE NoneVal

SelectBestStageSkippingInitial(stages) == ui_best_stage(stages)

\* min(enabled_stages, key=deviation) if enabled_stages else stages[0]: the
\* first stage of least deviation among the enabled ones; the chosen
\* StageResult is identified by its key
SelectBestStage(stages) ==
    LET enabled_stages == SelectSeq(stages, LAMBDA st : st.enabled)
        n == Len(enabled_stages)
        best == CHOOSE i \in 1 .. n :
                    /\ \A j \in 1 .. n : enabled_stages[i].deviation <= enabled_stages[j].deviation
                    /\ \A j \in 1 .. i - 1 :
                          enabled_stages[j].deviation > enabled_stages[i].deviation
    IN  IF n > 0 THEN enabled_stages[best].key ELSE stages[1].key

\* stages.append(stage)
StagesAppendEnabled(stages, stage) ==
    IF stage.enabled THEN Append(stages, stage) ELSE stages
StagesAppend(stages, stage) == Append(stages, stage)

\* what compute_workflow returns, with what an observer of the call saw:
\* the heap and the solver's weight maps after the call, the WorkflowData,
\* the array bound to mesh_state after each step (handed: its first entry is
\* the copy of the bed's mesh, entry n is what stage n returned), the
\* contents of the mesh handed to each stage when it was called (received)
\* and of each stage's stored mesh when its StageResult was built (built).
WorkflowOf(settings, mesh_state, initial, belt, screw, tape, temperature, stages) ==
    InOrder(<< stages >>,
        [built |-> << initial.heap[initial.stage.mesh],
                      belt.heap[belt.stage.mesh],
                      screw.heap[screw.stage.mesh],
                      tape.heap[tape.stage.mesh],
                      temperature.heap[temperature.stage.mesh] >>,
         received |-> << mesh_state.heap[mesh_state.ref],
                         initial.heap[mesh_state.ref],
                         belt.heap[belt.mesh],
                         screw.heap[screw.mesh],
                         tape.heap[tape.mesh] >>,
         handed |-> << mesh_state.ref, belt.mesh, screw.mesh, tape.mesh,
                       temperature.mesh >>,
         data |-> [stages |-> stages,
                   best_stage |-> SelectBestStage(stages),
                   active_thermal_model |-> Get(settings, "thermal_model", NoneVal)],
         solver |-> belt.solver,
         heap |-> temperature.heap])

\* the statements of compute_workflow after the temperature stage ...
AfterTemperature(settings, mesh_state, initial, belt, screw, tape, temperature) ==
    InOrder(<< temperature >>,
        WorkflowOf(settings, mesh_state, initial, belt, screw, tape, temperature,
            StagesAppend(
                StagesAppend(
                    StagesAppend(
                        StagesAppend(
                            StagesAppend(<< >>, initial.stage),
                            belt.stage),
                        screw.stage),
                    tape.stage),
                temperature.stage)))

\* ... after the tape stage ...
AfterTape(settings, mesh_state, initial, belt, screw, tape) ==
    InOrder(<< tape >>,
        AfterTemperature(settings, mesh_state, initial, belt, screw, tape,
            build_temperature_stage(tape.heap, tape.mesh,
                                    Get(settings, "environment", << >>), TRUE)))

\* ... after the screw stage ...
AfterScrews(tc, settings, workflow_flags, mesh_state, initial, belt, screw) ==
    InOrder(<< screw >>,
        AfterTape(settings, mesh_state, initial, belt, screw,
            build_tape_stage(screw.heap, tc, screw.mesh, settings,
                             Get(workflow_flags, "enable_tape", TRUE))))

\* ... after the belt stage ...
AfterBelts(bed_ref, config, tc, settings, workflow_flags, mesh_state, initial, belt) ==
    InOrder(<< belt >>,
        AfterScrews(tc, settings, workflow_flags, mesh_state, initial, belt,
            build_screw_stage(belt.heap, bed_ref, config, belt.solver, belt.mesh,
                              Get(workflow_flags, "enable_screws", TRUE))))

\* ... after the initial stage ...
AfterInitial(bed_ref, config, solver_weights, tc, settings, workflow_flags, mesh_state, initial) ==
    InOrder(<< initial >>,
        AfterBelts(bed_ref, config, tc, settings, workflow_flags, mesh_state, initial,
            build_belt_stage(initial.heap, bed_ref, solver_weights, settings,
                             mesh_state.ref, Get(workflow_flags, "enable_belt", TRUE))))

\* ... and after mesh_state = bed.mesh_data.copy()
AfterCopy(bed_ref, config, solver_weights, tc, settings, workflow_flags, mesh_state) ==
    InOrder(<< mesh_state >>,
        AfterInitial(bed_ref, config, solver_weights, tc, settings, workflow_flags,
                     mesh_state,
                     compute_initial_stage(mesh_state.heap, mesh_state.ref)))

\* compute_workflow(bed, analyzer, screw_solver, tape_calculator, settings)
compute_workflow(h, bed_ref, config, solver_weights, tc, settings) ==
    AfterCopy(bed_ref, config, solver_weights, tc, settings, WorkflowFlags(settings),
              NpCopy(h, bed_ref))

\* ---------------------------------------------------------------- inputs
\* the measured meshes: flat, with the front-left (tilt > 0) or the
\* front-right (tilt < 0) corner raised, the back centre lowered and the
\* centre cell dipped, each by 0 .. MaxLevel steps
MaxLevel == 1

MeshOf(tilt, bc, dip) ==
    [c \in Cells |->
        CASE c = << 0, 0 >>                   -> Max2(tilt, 0) * 50 * CENTI
          [] c = << 0, Cols - 1 >>            -> Max2(-tilt, 0) * 50 * CENTI
          [] c = << Rows - 1, Cols \div 2 >>  -> -(bc * 50 * CENTI)
          [] c = << Rows \div 2, Cols \div 2 >> -> -(dip * 13 * CENTI)
          [] OTHER                            -> 0]

MeshInputs ==
    {MeshOf(tilt, bc, dip) : tilt \in -MaxLevel .. MaxLevel,
                             bc \in 0 .. MaxLevel, dip \in 0 .. MaxLevel}

\* settings records (HardwareSettings, ThresholdSettings, EnvironmentSettings
\* and WorkflowSettings defaults, and variations of them)
HardwareInputs ==
    {[screw_pitch |-> 70 * CENTI, min_adjustment |-> 2 * CENTI,
      max_adjustment |-> 400 * CENTI, tape_thickness |-> 6 * CENTI,
      belt_tooth_mm |-> tooth * CENTI, corner_averaging |-> 0] : tooth \in {40, 20}}

ThresholdInputs ==
    {[belt_threshold |-> 40 * CENTI, screw_threshold |-> 19 * CENTI,
      tape_threshold |-> 1 * CENTI],
     [screw_threshold |-> 19 * CENTI, tape_threshold |-> 1 * CENTI]}

EnvironmentInputs ==
    {[measurement_temp |-> 25, target_temp |-> 25, thermal_expansion_coeff |-> 0],
     [measurement_temp |-> 25, target_temp |-> 60, thermal_expansion_coeff |-> 1600]}

WorkflowGroups ==
    [{"enable_belt", "enable_screws", "enable_tape"} -> BOOLEAN]

SettingsInputs ==
    {[hardware |-> hw, thresholds |-> th, environment |-> env] :
        hw \in HardwareInputs, th \in ThresholdInputs, env \in EnvironmentInputs}
    \cup
    {[hardware |-> hw, thresholds |-> th, environment |-> env, workflow |-> wf] :
        hw \in HardwareInputs, th \in ThresholdInputs, env \in EnvironmentInputs,
        wf \in WorkflowGroups}

\* ScrewConfig(pitch, min_adjust, max_adjust) built from the hardware group
ScrewConfigOf(st) ==
    [pitch |-> st.hardware.screw_pitch,
     min_adjust |-> st.hardware.min_adjustment,
     max_adjust |-> st.hardware.max_adjustment]

\* TapeCalculator(bed, tape_thickness, min_height_diff) built from the settings
TapeCalculatorOf(st) ==
    [tape_thickness |-> st.hardware.tape_thickness,
     min_height_diff |-> st.thresholds.tape_threshold]

\* ---------------------------------------------------------------- state
VARIABLES
    heap,             \* array reference -> contents of the array
    bed_mesh_data,    \* Bed.mesh_data (an array reference)
    settings,         \* the caller's settings record
    screw_config,     \* ScrewSolver.screw_config
    corner_weights,   \* ScrewSolver.corner_weights
    tape_calculator,  \* TapeCalculator.tape_thickness / min_height_diff
    returned,         \* the last two calls of compute_workflow, oldest first;
                      \* the last one holds the cached WorkflowData
    called,           \* the method call under way or last made, with its arguments
    outcome,          \* what that call returned or raised
    app               \* the AppState around the workspace: settings service,
                      \* profiles, active profile, cached workflow

\* no call made yet, and nothing returned or raised yet
NoCall == [op |-> "none"]
NoOutcome == [status |-> "none"]
\* what a call hands back: a value, or an exception of some class
Returned(value) == [status |-> "returned", value |-> value]
Raised(error) == [status |-> "raised", error |-> error]

\* no AppState is involved
NoApp == [status |-> "none"]

vars == << heap, bed_mesh_data, settings, screw_config, corner_weights,
           tape_calculator, returned, called, outcome, app >>

StageKeys == << "initial", "after_belts", "after_screws", "after_tape", "after_temperature" >>

\* the arrays still referenced after a call: the bed's mesh and the stored
\* meshes of the two retained WorkflowData, in a fixed order
StoredRefs(call) ==
    [i \in 1 .. Len(call.data.stages) |-> call.data.stages[i].mesh]

LiveRefs(bed_ref, calls) ==
    << bed_ref >> \o StoredRefs(calls[1]) \o
    (IF Len(calls) > 1 THEN StoredRefs(calls[2]) ELSE << >>)

\* references are opaque: the live arrays are renumbered 1, 2, ... in the
\* order of LiveRefs (aliased references stay aliased) and the rest is freed
Renumber(live, r) ==
    LET first == CHOOSE i \in 1 .. Len(live) :
                     live[i] = r /\ \A j \in 1 .. i - 1 : live[j] # r
    IN  Cardinality({live[j] : j \in 1 .. first})

CompactHeap(h, live) ==
    [n \in 1 .. Cardinality({live[j] : j \in 1 .. Len(live)}) |->
        h[CHOOSE r \in {live[j] : j \in 1 .. Len(live)} : Renumber(live, r) = n]]

CompactCall(call, live) ==
    LET stages == call.data.stages
    IN  [call EXCEPT !.data.stages =
            [i \in 1 .. Len(stages) |->
                [stages[i] EXCEPT !.mesh = Renumber(live, stages[i].mesh)]]]

Init ==
    /\ settings \in SettingsInputs
    /\ \E m \in MeshInputs : heap = << m >>
    /\ bed_mesh_data = 1
    /\ screw_config = ScrewConfigOf(settings)
    /\ corner_weights = compute_corner_weights
    /\ tape_calculator = TapeCalculatorOf(settings)
    /\ returned = << >>
    /\ called = NoCall
    /\ outcome = NoOutcome
    /\ app = NoApp

\* which of the arrays in refs are one and the same array: entry i is the
\* first position holding the array of position i
SameArrayAs(refs) ==
    [i \in 1 .. Len(refs) |->
        CHOOSE j \in 1 .. i : refs[j] = refs[i] /\ \A k \in 1 .. j - 1 : refs[k] # refs[i]]

\* the program state after a call that returned r: the new WorkflowData and
\* the previously returned one stay referenced by the caller, everything else
\* the call allocated is garbage
AfterCall(r, bed_ref, caller_settings, previous) ==
    LET call == [data |-> r.data, settings |-> caller_settings,
                 handed |-> SameArrayAs(r.handed),
                 received |-> r.received, built |-> r.built]
        kept == IF previous = << >> THEN << call >>
                ELSE << previous[Len(previous)], call >>
        live == LiveRefs(bed_ref, kept)
    IN  [heap |-> CompactHeap(r.heap, live),
         bed_mesh_data |-> Renumber(live, bed_ref),
         corner_weights |-> r.solver,
         returned |-> [i \in 1 .. Len(kept) |-> CompactCall(kept[i], live)]]

\* compute_workflow called on the same bed, solver and calculator objects
\* with the caller's settings; its result replaces the cached WorkflowData
ComputeWorkflow ==
    \E r \in {compute_workflow(heap, bed_mesh_data, screw_config, corner_weights,
                                tape_calculator, settings)} :
    \E after \in {AfterCall(r, bed_mesh_data, settings, returned)} :
        /\ heap' = after.heap
        /\ bed_mesh_data' = after.bed_mesh_data
        /\ corner_weights' = after.corner_weights
        /\ returned' = after.returned
        /\ UNCHANGED << settings, screw_config, tape_calculator, called, outcome,
                    app >>

\* ScrewSolver.set_screw_config with the ScrewConfig of the current settings
SetScrewConfig ==
    /\ screw_config' = ScrewConfigOf(settings)
    /\ corner_weights' = compute_corner_weights
    /\ UNCHANGED << heap, bed_mesh_data, settings, tape_calculator, returned,
                    called, outcome,
                    app >>

Next == ComputeWorkflow \/ SetScrewConfig

Spec == Init /\ [][Next]_vars

\* ---------------------------------------------------------------- claims
\* the WorkflowData most recently returned
Latest == returned[Len(returned)]

\* C1: every compute_workflow call returns exactly five StageResults, keyed
\* in order initial, after_belts, after_screws, after_tape,
\* after_temperature, whatever the workflow flags are and also when the
\* settings have no 'workflow' group
C1_FiveStagesInOrder ==
    \A n \in 1 .. Len(returned) :
        LET stages == returned[n].data.stages
        IN  /\ Len(stages) = 5
            /\ stages[1].key = "initial"
            /\ stages[2].key = "after_belts"
            /\ stages[3].key = "after_screws"
            /\ stages[4].key = "after_tape"
            /\ stages[5].key = "after_temperature"

\* a call made with settings that have no 'workflow' group has returned
C1_Witness ==
    /\ returned # << >>
    /\ "workflow" \notin DOMAIN Latest.settings
    /\ Len(Latest.data.stages) = 5

\* the workflow flag the caller's settings give for stage k (2: belts,
\* 3: screws, 4: tape); absent means true
FlagNames == << "none", "enable_belt", "enable_screws", "enable_tape" >>
FlagGiven(call, k) ==
    IF "workflow" \in DOMAIN call.settings /\ FlagNames[k] \in DOMAIN call.settings.workflow
    THEN call.settings.workflow[FlagNames[k]]
    ELSE TRUE

\* C2: a belt, screw or tape stage whose workflow flag is false has
\* enabled = false, deviation = baseline, no actions and the warning
\* 'visual_rec.stage_disabled'; its stored mesh equals its input mesh, the
\* mesh it hands on is the very array it was given (so the next stage
\* receives the same contents), and all five stages are still produced
C2_DisabledStagePassesThrough ==
    \A n \in 1 .. Len(returned) :
        \A k \in 2 .. 4 :
            ~FlagGiven(returned[n], k) =>
                LET call == returned[n]
                    stage == call.data.stages[k]
                IN  /\ Len(call.data.stages) = 5
                    /\ stage.key = StageKeys[k]
                    /\ stage.enabled = FALSE
                    /\ stage.deviation = stage.baseline
                    /\ stage.actions = << >>
                    /\ stage.warnings = << "visual_rec.stage_disabled" >>
                    /\ call.built[k] = call.received[k]
                    /\ call.handed[k] = call.handed[k - 1]
                    /\ call.received[k + 1] = call.received[k]

\* a call with enable_screws = false returned after an enabled belt stage
\* changed the mesh: after_screws.mesh equals after_belts.mesh
C2_Witness ==
    /\ returned # << >>
    /\ ~FlagGiven(Latest, 3)
    /\ Latest.data.stages[2].enabled
    /\ Latest.data.stages[2].actions # << >>
    /\ Latest.built[3] = Latest.built[2]
    /\ Latest.built[2] # Latest.built[1]
    /\ Latest.data.stages[3].actions = << >>

\* C3: in every returned WorkflowData, each stage after initial received the
\* mesh stored in the previous StageResult, has the previous stage's
\* deviation as its baseline, and has deviation = max - min of its own stored
\* mesh; the initial stage's baseline is null
C3_StagesChained ==
    \A n \in 1 .. Len(returned) :
        LET call == returned[n]
            stages == call.data.stages
        IN  /\ stages[1].baseline = NoneVal
            /\ \A k \in 2 .. 5 :
                   /\ call.received[k] = call.built[k - 1]
                   /\ stages[k].baseline = stages[k - 1].deviation
                   /\ stages[k].deviation = NpMax(call.built[k]) - NpMin(call.built[k])

\* a call in which the belt, screw and tape stages were enabled and each
\* changed the mesh it received
C3_Witness ==
    /\ returned # << >>
    /\ \A k \in 2 .. 4 : /\ Latest.data.stages[k].enabled
                         /\ Latest.data.stages[k].actions # << >>
                         /\ Latest.built[k] # Latest.built[k - 1]
                         /\ Latest.data.stages[k].deviation # Latest.data.stages[k].baseline

\* (corner, direction, minutes) of each listed screw action
ScrewTurns(actions) ==
    [i \in 1 .. Len(actions) |->
        << actions[i].identifier, actions[i].direction, actions[i].minutes >>]

\* C4: whenever the belt stage is enabled and changed the mesh, the screw
\* adjustments listed in after_screws (corner, direction, minutes) are those
\* the screw solver computes from the corner heights and ideal plane of the
\* after_belts mesh
C4_ScrewsFromBeltMesh ==
    \A n \in 1 .. Len(returned) :
        LET call == returned[n]
            stages == call.data.stages
        IN  (stages[2].enabled /\ call.built[2] # call.built[1] /\ stages[3].enabled) =>
                ScrewTurns(stages[3].actions) =
                    ScrewTurns(build_screw_actions(
                        calculate_adjustments(ScrewConfigOf(call.settings), call.built[2],
                                              generate_ideal_plane(call.built[2]))))

\* C5: the best_stage of a returned WorkflowData is the lowest-deviation
\* stage among the enabled non-initial stages with actions; failing that the
\* lowest-deviation enabled non-initial stage; failing that after_belts; it
\* is never the initial stage
C5_BestStageRule ==
    \A n \in 1 .. Len(returned) :
        LET data == returned[n].data
        IN  /\ data.best_stage = ui_best_stage(data.stages)
            /\ data.best_stage # "initial"

\* the StageResult a WorkflowData names as best
BestStageOf(data) ==
    data.stages[CHOOSE i \in 1 .. Len(data.stages) : data.stages[i].key = data.best_stage]

\* C6: the best_stage of every returned WorkflowData has a deviation no
\* larger than the initial stage's deviation, also when enabled stages
\* overshoot
C6_BestNotWorseThanInitial ==
    \A n \in 1 .. Len(returned) :
        BestStageOf(returned[n].data).deviation <= returned[n].data.stages[1].deviation

\* a call in which one enabled stage raised the deviation above the initial
\* one while the stage chosen as best lowered it
C6_Witness ==
    /\ returned # << >>
    /\ \E k \in 2 .. 5 : /\ Latest.data.stages[k].enabled
                         /\ Latest.data.stages[k].deviation > Latest.data.stages[1].deviation
    /\ Latest.data.best_stage # "initial"
    /\ BestStageOf(Latest.data).deviation < Latest.data.stages[1].deviation

\* the StageResults of a call with each stored mesh given by its contents
StagesWithMeshes(call) ==
    [i \in 1 .. Len(call.data.stages) |->
        [call.data.stages[i] EXCEPT !.mesh = heap[call.data.stages[i].mesh]]]

\* C7: two successive compute_workflow calls on the same bed, solver and
\* calculator with the same mesh and settings return the same stage
\* sequence (keys, enabled flags, deviations, baselines, meshes, actions and
\* warnings) and the same best stage key
C7_RepeatableWorkflow ==
    (Len(returned) = 2 /\ returned[1].settings = returned[2].settings) =>
        /\ StagesWithMeshes(returned[1]) = StagesWithMeshes(returned[2])
        /\ returned[1].built = returned[2].built
        /\ returned[1].data.best_stage = returned[2].data.best_stage

\* two calls have returned, the second with belt, screw and tape actions
\* applied
C7_Witness ==
    /\ Len(returned) = 2
    /\ \A k \in 2 .. 4 : /\ returned[2].data.stages[k].actions # << >>
                         /\ returned[2].built[k] # returned[2].built[k - 1]

\* C8: no step changes the contents of the Bed's mesh_data, whatever the
\* workflow flags are
C8_BedMeshUnchanged ==
    [][heap'[bed_mesh_data'] = heap[bed_mesh_data]]_vars

\* a call has returned in which the screw and tape stages wrote their
\* simulated heights into a mesh, and the bed still holds what the call was
\* given
C8_Witness ==
    /\ returned # << >>
    /\ Latest.data.stages[3].actions # << >>
    /\ Latest.data.stages[4].actions # << >>
    /\ Latest.built[4] # Latest.received[1]
    /\ heap[bed_mesh_data] = Latest.received[1]

\* C9: the mesh stored in a StageResult keeps the contents it had when the
\* StageResult was built, through the later stages of the same run and
\* through a following run of compute_workflow
C9_StoredMeshesFrozen ==
    \A n \in 1 .. Len(returned) :
        \A i \in 1 .. Len(returned[n].data.stages) :
            heap[returned[n].data.stages[i].mesh] = returned[n].built[i]

\* a second call has run, with a disabled stage handing its input array on
\* to a stage that applied actions, while the first call's WorkflowData is
\* still held
C9_Witness ==
    /\ Len(returned) = 2
    /\ \E k \in 2 .. 3 : /\ ~returned[2].data.stages[k].enabled
                         /\ returned[2].data.stages[k + 1].actions # << >>
                         /\ returned[2].built[k + 1] # returned[2].built[k]
    /\ heap[returned[1].data.stages[2].mesh] = returned[1].built[2]

\* C10: the mean of after_belts.mesh equals the mean of the mesh the belt
\* stage was given (the sums over all cells are equal), for zero, one or
\* two belt actions
C10_BeltKeepsMean ==
    \A n \in 1 .. Len(returned) :
        NpSum(returned[n].built[2]) = NpSum(returned[n].received[2])

\* a call applied two belt actions and changed the mesh
C10_Witness ==
    /\ returned # << >>
    /\ Len(Latest.data.stages[2].actions) = 2
    /\ Latest.built[2] # Latest.received[2]

\* ---------------------------------------------------------------- ScrewSolver on any grid
\* the largest mesh_points_x / mesh_points_y of the grids a solver is built for
MaxPoints == 8

\* the index grid of a rows x cols array
GridCells(rows, cols) == (0 .. rows - 1) \X (0 .. cols - 1)

\* np.linspace(0, 1, n)[i], for n >= 2
Linspace(n, i) == Frac(i, n - 1)

\* 1 - f
OneMinus(f) == Frac(f.den - f.num, f.den)

\* the product of row and column factors that is the raw map of a corner
BilinearFactor(corner, row_factor, col_factor) ==
    CASE corner = "front_left"  -> FracMul(OneMinus(row_factor), OneMinus(col_factor))
      [] corner = "front_right" -> FracMul(OneMinus(row_factor), col_factor)
      [] corner = "back_left"   -> FracMul(row_factor, OneMinus(col_factor))
      [] corner = "back_right"  -> FracMul(row_factor, col_factor)

\* total_weight = sum(self.corner_weights.values()) at one grid point
TotalWeight(row_factor, col_factor) ==
    FracSum([k \in 1 .. Len(CornerNames) |->
                BilinearFactor(CornerNames[k], row_factor, col_factor)])

\* correction = np.where(total_weight != 0, 1.0 / total_weight, 0), applied
CorrectedWeight(weight, total_weight) ==
    IF total_weight.num # 0
    THEN FracMul(weight, Frac(total_weight.den, total_weight.num))
    ELSE Frac(0, 1)

\* the bilinear branch of _compute_corner_weights
BilinearWeights(rows, cols) ==
    [corner \in DOMAIN corners |->
        [c \in GridCells(rows, cols) |->
            CorrectedWeight(
                BilinearFactor(corner, Linspace(rows, c[1]), Linspace(cols, c[2])),
                TotalWeight(Linspace(rows, c[1]), Linspace(cols, c[2])))]]

\* np.ones((rows, cols)) for every corner
UniformWeights(rows, cols) ==
    [corner \in DOMAIN corners |-> [c \in GridCells(rows, cols) |-> Frac(1, 1)]]

\* the maps of a solver that takes every grid for a degenerate one
corner_weights_always_uniform(rows, cols) == UniformWeights(rows, cols)

\* ScrewSolver._compute_corner_weights() for a bed of rows x cols mesh
\* points, the weights as exact rationals
corner_weights_on(rows, cols) ==
    IF rows < 2 \/ cols < 2
    THEN UniformWeights(rows, cols)
    ELSE BilinearWeights(rows, cols)

\* the beds a solver is built for: BedConfig.mesh_points_x / mesh_points_y
GridInputs ==
    {[op |-> "ScrewSolver", mesh_points_x |-> rows, mesh_points_y |-> cols] :
        rows \in 1 .. MaxPoints, cols \in 1 .. MaxPoints}

\* a bed of some grid size, no solver built for it yet
WeightsInit ==
    /\ called \in GridInputs
    /\ corner_weights = << >>
    /\ outcome = NoOutcome
    /\ app = NoApp
    /\ heap = << >>
    /\ bed_mesh_data = NoneVal
    /\ settings = NoneVal
    /\ screw_config = NoneVal
    /\ tape_calculator = NoneVal
    /\ returned = << >>

\* ScrewSolver(bed): __init__ ends with self._compute_corner_weights()
BuildSolver ==
    /\ outcome.status = "none"
    /\ corner_weights' = corner_weights_on(called.mesh_points_x, called.mesh_points_y)
    /\ outcome' = Returned(NoneVal)
    /\ UNCHANGED << heap, bed_mesh_data, settings, screw_config, tape_calculator,
                    returned, called,
                    app >>

WeightsNext == BuildSolver

WeightsSpec == WeightsInit /\ [][WeightsNext]_vars

\* C11: on a grid of at least 2 x 2 points the four corner weight maps of
\* the solver sum to 1 at every grid point and every weight lies in [0, 1];
\* on a grid with a single row or a single column every map is 1 everywhere
C11_CornerWeightsSumToOne ==
    outcome.status = "returned" =>
        \A c \in GridCells(called.mesh_points_x, called.mesh_points_y) :
            IF called.mesh_points_x >= 2 /\ called.mesh_points_y >= 2
            THEN /\ FracSum([k \in 1 .. Len(CornerNames) |->
                                corner_weights[CornerNames[k]][c]]) = Frac(1, 1)
                 /\ \A corner \in DOMAIN corners :
                        /\ corner_weights[corner][c].num >= 0
                        /\ corner_weights[corner][c].num <= corner_weights[corner][c].den
            ELSE \A corner \in DOMAIN corners : corner_weights[corner][c] = Frac(1, 1)

\* a solver built for a 5 x 5 grid, whose inner weights are proper fractions
C11_Witness ==
    /\ outcome.status = "returned"
    /\ called.mesh_points_x = 5 /\ called.mesh_points_y = 5
    /\ corner_weights["front_left"][<< 1, 1 >>] = Frac(9, 16)
    /\ corner_weights["back_right"][<< 1, 1 >>] = Frac(1, 16)

\* ---------------------------------------------------------------- TapeCalculator calls
\* depths of the low cells in 0.01 mm, on and around the priority and
\* layer thresholds; a mesh uses the first MaxDepth of them (and 0)
MaxDepth == 4
DepthLevels == << 0, 13, 26, 30, 31, 20, 40, 39 >>
Depth(k) == DepthLevels[Min2(k, Len(DepthLevels) - 1) + 1] * CENTI

\* a mesh with the centre cell, a neighbour of it and the front-left corner
\* lowered, and (when balanced) one cell raised so that the mean stays 0
TapeMeshOf(centre, beside, corner, balanced) ==
    [c \in Cells |->
        CASE c = << 2, 2 >> -> -Depth(centre)
          [] c = << 1, 3 >> -> -Depth(beside)
          [] c = << 0, 0 >> -> -Depth(corner)
          [] c = << 3, 1 >> -> IF balanced
                               THEN Depth(centre) + Depth(beside) + Depth(corner)
                               ELSE 0
          [] OTHER -> 0]

\* a mesh with three cells lowered, the first on the edge of the grid: in a
\* row, the middle one next to both others, or (bent) in a corner shape,
\* each next to both others
TapeRowOf(left, middle, right, bent) ==
    [c \in Cells |->
        CASE c = << 2, 0 >> -> -Depth(left)
          [] c = << 2, 1 >> -> -Depth(middle)
          [] c = (IF bent THEN << 3, 1 >> ELSE << 2, 2 >>) -> -Depth(right)
          [] OTHER -> 0]

TapeMeshInputs ==
    {TapeMeshOf(centre, beside, corner, balanced) :
        centre \in 0 .. MaxDepth, beside \in 0 .. MaxDepth, corner \in 0 .. MaxDepth,
        balanced \in BOOLEAN}
    \cup {TapeRowOf(left, middle, right, bent) :
            left \in 1 .. MaxDepth, middle \in 1 .. MaxDepth, right \in 1 .. MaxDepth,
            bent \in BOOLEAN}

\* TapeCalculator(bed, tape_thickness, min_height_diff)
TapeCalculatorInputs ==
    {[tape_thickness |-> thickness * CENTI, min_height_diff |-> threshold * CENTI] :
        thickness \in {6, 10}, threshold \in {1, 13}}

\* a bed with a mesh and a TapeCalculator for it
TapeInit ==
    /\ \E m \in TapeMeshInputs : heap = << m >>
    /\ bed_mesh_data = 1
    /\ tape_calculator \in TapeCalculatorInputs
    /\ called = NoCall
    /\ outcome = NoOutcome
    /\ app = NoApp
    /\ settings = NoneVal
    /\ screw_config = NoneVal
    /\ corner_weights = << >>
    /\ returned = << >>

\* the lists made of k distinct elements of the sequence s, in any order
Arrangements(s, k) ==
    {[i \in 1 .. k |-> s[f[i]]] :
        f \in {g \in [1 .. k -> 1 .. Len(s)] : \A i, j \in 1 .. k : i # j => g[i] # g[j]}}

\* tape_calculator.find_low_spots(mesh) on the bed's mesh
FindLowSpots ==
    /\ called.op = "none"
    /\ called' = [op |-> "find_low_spots"]
    /\ outcome' = Returned(find_low_spots(tape_calculator, heap[bed_mesh_data]))
    /\ UNCHANGED << heap, bed_mesh_data, settings, screw_config, corner_weights,
                    tape_calculator, returned,
                    app >>

\* tape_calculator.optimize_tape_layout(spots) on the spots just found
OptimizeTapeLayout ==
    /\ called.op = "find_low_spots"
    /\ called' = [op |-> "optimize_tape_layout", spots |-> outcome.value]
    /\ outcome' = Returned(optimize_tape_layout(tape_calculator, outcome.value))
    /\ UNCHANGED << heap, bed_mesh_data, settings, screw_config, corner_weights,
                    tape_calculator, returned, app >>

\* the array apply_spots returned, and the base array as the call left it
SpotsApplied(r, base_ref) == [mesh |-> r.heap[r.ref], base |-> r.heap[base_ref]]

\* tape_calculator.apply_spots(bed.mesh_data, spots) for the spots just
\* found or merged, in any order
ApplySpots ==
    /\ called.op \in {"find_low_spots", "optimize_tape_layout"}
    /\ \E spots \in Arrangements(outcome.value, Len(outcome.value)) :
       \E r \in {SpotsApplied(apply_spots(heap, tape_calculator, bed_mesh_data, spots),
                               bed_mesh_data)} :
          /\ called' = [op |-> "apply_spots", spots |-> spots,
                        base_mesh |-> heap[bed_mesh_data]]
          /\ outcome' = Returned(r.mesh)
          /\ heap' = << r.base >>
    /\ UNCHANGED << bed_mesh_data, settings, screw_config, corner_weights,
                    tape_calculator, returned, app >>

TapeNext == FindLowSpots \/ OptimizeTapeLayout \/ ApplySpots

TapeSpec == TapeInit /\ [][TapeNext]_vars

\* the height deficit of a cell: the mean of the mesh minus the cell value
Deficit(mesh, c) == NpMean(mesh) - mesh[c]

\* n = ceil(d / t) for d > 0
IsCeilOf(n, d, t) == (n - 1) * t < d /\ d <= n * t

\* C12: every spot find_low_spots returns for a cell with deficit d has
\* layers = max(1, ceil(d / tape_thickness)); of two spots the one with the
\* larger deficit (in particular one with twice the deficit) never has
\* fewer layers; a deficit of 0.13 with tape 0.06 thick and threshold 0.01
\* gives 3 layers, and so does a single cell 0.13 below an otherwise flat mesh
C12_LayersFromDeficit ==
    called.op = "find_low_spots" =>
        \A i \in 1 .. Len(outcome.value) :
            /\ outcome.value[i].layers >= 1
            /\ \/ outcome.value[i].layers = 1
                  /\ Deficit(heap[bed_mesh_data],
                             << outcome.value[i].x, outcome.value[i].y >>)
                        <= tape_calculator.tape_thickness
               \/ IsCeilOf(outcome.value[i].layers,
                           Deficit(heap[bed_mesh_data],
                                   << outcome.value[i].x, outcome.value[i].y >>),
                           tape_calculator.tape_thickness)
            /\ \A j \in 1 .. Len(outcome.value) :
                    Deficit(heap[bed_mesh_data], << outcome.value[j].x, outcome.value[j].y >>)
                        >= Deficit(heap[bed_mesh_data],
                                   << outcome.value[i].x, outcome.value[i].y >>)
                    => outcome.value[j].layers >= outcome.value[i].layers
            /\ ( /\ Deficit(heap[bed_mesh_data],
                            << outcome.value[i].x, outcome.value[i].y >>) = 13 * CENTI
                 /\ tape_calculator.tape_thickness = 6 * CENTI
                 /\ tape_calculator.min_height_diff = 1 * CENTI )
                => outcome.value[i].layers = 3
            /\ ( /\ heap[bed_mesh_data] = [c \in Cells |-> IF c = << 2, 2 >>
                                                             THEN -13 * CENTI ELSE 0]
                 /\ tape_calculator.tape_thickness = 6 * CENTI
                 /\ tape_calculator.min_height_diff = 1 * CENTI )
                => outcome.value[i].layers = 3 /\ Len(outcome.value) = 1

\* the centre cell 0.13 below the mean of a balanced mesh, its neighbour
\* twice as deep: 3 and 5 layers of 0.06 tape
C12_Witness ==
    /\ called.op = "find_low_spots"
    /\ tape_calculator = [tape_thickness |-> 6 * CENTI, min_height_diff |-> 1 * CENTI]
    /\ NpMean(heap[bed_mesh_data]) = 0
    /\ heap[bed_mesh_data][<< 2, 2 >>] = -13 * CENTI
    /\ \E i, j \in 1 .. Len(outcome.value) :
          /\ outcome.value[i].x = 2 /\ outcome.value[i].y = 2
          /\ outcome.value[i].layers = 3
          /\ outcome.value[j].height_diff.num = 2 * outcome.value[i].height_diff.num
          /\ outcome.value[j].layers > outcome.value[i].layers

\* the grid cells of the four corner screws
ScrewCells == {corners[corner] : corner \in DOMAIN corners}

\* the cells find_low_spots is to report
QualifyingCells(tc, mesh) ==
    {c \in Cells \ ScrewCells : Deficit(mesh, c) > tc.min_height_diff}

\* C20: find_low_spots returns one spot for each cell that is not a corner
\* screw position and lies below the mesh mean by strictly more than
\* min_height_diff, and no other spot; the spots are ordered by priority
\* ascending (1 if the deficit exceeds 0.3, 2 if it exceeds 0.2, else 3) and
\* then by deficit descending
C20_LowSpotsExactAndOrdered ==
    called.op = "find_low_spots" =>
        /\ {<< outcome.value[i].x, outcome.value[i].y >> : i \in 1 .. Len(outcome.value)}
               = QualifyingCells(tape_calculator, heap[bed_mesh_data])
        /\ Len(outcome.value)
               = Cardinality(QualifyingCells(tape_calculator, heap[bed_mesh_data]))
        /\ \A i \in 1 .. Len(outcome.value) :
              /\ outcome.value[i].height_diff
                     = Frac(Deficit(heap[bed_mesh_data],
                                    << outcome.value[i].x, outcome.value[i].y >>), 1)
              /\ outcome.value[i].priority
                     = (IF outcome.value[i].height_diff.num > 30 * CENTI THEN 1
                        ELSE IF outcome.value[i].height_diff.num > 20 * CENTI THEN 2
                        ELSE 3)
              /\ \A j \in i + 1 .. Len(outcome.value) :
                    \/ outcome.value[i].priority < outcome.value[j].priority
                    \/ /\ outcome.value[i].priority = outcome.value[j].priority
                       /\ outcome.value[i].height_diff.num >= outcome.value[j].height_diff.num

\* the front-left corner cell is low but carries no spot; the centre cell
\* (priority 1) is listed before the shallower cell that precedes it in the grid
C20_Witness ==
    /\ called.op = "find_low_spots"
    /\ Deficit(heap[bed_mesh_data], << 0, 0 >>) > tape_calculator.min_height_diff
    /\ Len(outcome.value) = 2
    /\ outcome.value[1].x = 2 /\ outcome.value[1].y = 2 /\ outcome.value[1].priority = 1
    /\ outcome.value[2].x = 1 /\ outcome.value[2].y = 3 /\ outcome.value[2].priority = 3

\* ---------------------------------------------------------------- Screw calls
\* heights are multiples of 0.05 mm between -MaxHeight and MaxHeight steps
MaxHeight == 3
HeightInputs == {k * 5 * CENTI : k \in -MaxHeight .. MaxHeight}

\* ScrewConfig(pitch, min_adjust, max_adjust)
ScrewConfigInputs ==
    {[pitch |-> pitch * CENTI, min_adjust |-> min_adjust * CENTI,
      max_adjust |-> max_adjust * CENTI] :
        pitch \in {70, 50}, min_adjust \in {0, 10}, max_adjust \in {15, 400}}

\* a Screw with its config
ScrewInit ==
    /\ screw_config \in ScrewConfigInputs
    /\ called = NoCall
    /\ outcome = NoOutcome
    /\ app = NoApp
    /\ heap = << >>
    /\ bed_mesh_data = NoneVal
    /\ settings = NoneVal
    /\ corner_weights = << >>
    /\ tape_calculator = NoneVal
    /\ returned = << >>

\* screw.calculate_adjustment(current_height, target_height)
CalculateAdjustment ==
    \E current_height \in HeightInputs, target_height \in HeightInputs :
        /\ called' = [op |-> "calculate_adjustment",
                      current_height |-> current_height,
                      target_height |-> target_height]
        /\ outcome' = Returned(calculate_adjustment(screw_config, current_height,
                                                    target_height))
        /\ UNCHANGED << heap, bed_mesh_data, settings, screw_config, corner_weights,
                        tape_calculator, returned,
                    app >>

\* screw.height_change_from_minutes(minutes, direction) with the pair that
\* calculate_adjustment just returned
HeightChangeFromMinutes ==
    /\ called.op = "calculate_adjustment"
    /\ called' = [op |-> "height_change_from_minutes",
                  minutes |-> outcome.value.minutes,
                  direction |-> outcome.value.direction,
                  current_height |-> called.current_height,
                  target_height |-> called.target_height]
    /\ outcome' = Returned(height_change_from_minutes(screw_config, outcome.value.minutes,
                                                      outcome.value.direction))
    /\ UNCHANGED << heap, bed_mesh_data, settings, screw_config, corner_weights,
                    tape_calculator, returned,
                    app >>

ScrewNext == CalculateAdjustment \/ HeightChangeFromMinutes

ScrewSpec == ScrewInit /\ [][ScrewNext]_vars

\* a <= b for rationals in lowest terms
FracLeq(a, b) == a.num * b.den <= b.num * a.den

\* diff = current_height - target_height of the call
CallDiff == called.current_height - called.target_height

\* C13: calculate_adjustment returns 0 minutes when |diff| < min_adjust;
\* otherwise clockwise for diff > 0 and counterclockwise for diff < 0, with
\* minutes = min(|diff|, max_adjust) / (pitch / 60), which never exceeds
\* max_adjust / (pitch / 60); and height_change_from_minutes of the returned
\* pair is -diff whenever min_adjust <= |diff| <= max_adjust
C13_AdjustmentClampedAndInvertible ==
    /\ called.op = "calculate_adjustment" =>
          IF Abs(CallDiff) < screw_config.min_adjust
          THEN outcome.value.minutes.num = 0
          ELSE /\ CallDiff > 0 => outcome.value.direction = "CLOCKWISE"
               /\ CallDiff < 0 => outcome.value.direction = "COUNTERCLOCKWISE"
               /\ outcome.value.minutes
                     = Frac(60 * Min2(Abs(CallDiff), screw_config.max_adjust),
                            screw_config.pitch)
               /\ FracLeq(outcome.value.minutes,
                          Frac(60 * screw_config.max_adjust, screw_config.pitch))
    /\ ( /\ called.op = "height_change_from_minutes"
         /\ screw_config.min_adjust <= Abs(CallDiff)
         /\ Abs(CallDiff) <= screw_config.max_adjust )
       => outcome.value = -CallDiff

\* a corner 0.10 too high, just at min_adjust and within max_adjust: the
\* clockwise turn calculate_adjustment returned lowers it by exactly 0.10
C13_Witness ==
    /\ called.op = "height_change_from_minutes"
    /\ CallDiff = 10 * CENTI
    /\ screw_config.min_adjust = 10 * CENTI
    /\ called.direction = "CLOCKWISE"
    /\ called.minutes.num > 0
    /\ outcome.value = -10 * CENTI

\* ---------------------------------------------------------------- ScrewSolver calls
\* corner heights are 0 .. MaxCorner steps of 0.25 mm
MaxCorner == 2

\* the level of the corner whose 2 x 2 block holds cell c, 0 for other cells
CornerLevelAt(levels, c) ==
    IF \E k \in 1 .. Len(CornerNames) :
          /\ Abs(c[1] - corners[CornerNames[k]][1]) <= 1
          /\ Abs(c[2] - corners[CornerNames[k]][2]) <= 1
    THEN levels[CHOOSE k \in 1 .. Len(CornerNames) :
                    /\ Abs(c[1] - corners[CornerNames[k]][1]) <= 1
                    /\ Abs(c[2] - corners[CornerNames[k]][2]) <= 1]
    ELSE 0

\* a mesh that is 0 except at the corners: levels gives the height of each
\* corner (in CornerNames order), of its whole 2 x 2 block or of the corner
\* cell alone
SolverMeshOf(levels, whole_block) ==
    [c \in Cells |->
        IF whole_block \/ c \in {corners[corner] : corner \in DOMAIN corners}
        THEN CornerLevelAt(levels, c) * 25 * CENTI
        ELSE 0]

\* the two corners named first are raised, the other two stay at 0
SolverMeshInputs ==
    {SolverMeshOf(<< first, second, 0, 0 >>, whole_block) :
        first \in 0 .. MaxCorner, second \in 0 .. MaxCorner, whole_block \in BOOLEAN}

SolverConfigInputs ==
    {[pitch |-> 70 * CENTI, min_adjust |-> min_adjust * CENTI, max_adjust |-> 400 * CENTI] :
        min_adjust \in {2, 10}}

\* a bed with a mesh and a ScrewSolver built for it
SolverInit ==
    /\ \E m \in SolverMeshInputs : heap = << m >>
    /\ bed_mesh_data = 1
    /\ screw_config \in SolverConfigInputs
    /\ corner_weights = compute_corner_weights
    /\ called = NoCall
    /\ outcome = NoOutcome
    /\ app = NoApp
    /\ settings = NoneVal
    /\ tape_calculator = NoneVal
    /\ returned = << >>

\* solver.calculate_adjustments(bed.generate_ideal_plane())
CalculateAdjustments ==
    /\ called.op = "none"
    /\ called' = [op |-> "calculate_adjustments"]
    /\ outcome' = Returned(calculate_adjustments(screw_config, heap[bed_mesh_data],
                                                 generate_ideal_plane(heap[bed_mesh_data])))
    /\ UNCHANGED << heap, bed_mesh_data, settings, screw_config, corner_weights,
                    tape_calculator, returned,
                    app >>

\* lists of adjustments: any of the returned ones in any order, the first
\* possibly once more at the end
AdjustmentLists(s) ==
    UNION {Arrangements(s, k) : k \in 0 .. Len(s)}
    \cup {Append(a, a[1]) : a \in UNION {Arrangements(s, k) : k \in 1 .. Len(s) - 1}}

\* the array a call returned, and the bed's array as the call left it
SimulatedBy(r, bed_ref) == [mesh |-> r.heap[r.ref], bed |-> r.heap[bed_ref]]

\* solver.simulate_sequence(adjustments, base_mesh=bed.mesh_data) for a
\* list made of the adjustments calculate_adjustments returned
SimulateSequence ==
    /\ called.op = "calculate_adjustments"
    /\ \E adjustments \in AdjustmentLists(outcome.value) :
       \E r \in {SimulatedBy(simulate_sequence(heap, screw_config, corner_weights,
                                               adjustments, bed_mesh_data),
                              bed_mesh_data)} :
          /\ called' = [op |-> "simulate_sequence", adjustments |-> adjustments,
                        again |-> FALSE, first |-> r.mesh]
          /\ outcome' = Returned(r.mesh)
          /\ heap' = << r.bed >>
    /\ UNCHANGED << bed_mesh_data, settings, screw_config, corner_weights,
                    tape_calculator, returned,
                    app >>

\* the same call once more with the adjustments in another order
SimulatePermuted ==
    /\ called.op = "simulate_sequence"
    /\ ~called.again
    /\ \E adjustments \in Arrangements(called.adjustments, Len(called.adjustments)) :
       \E r \in {SimulatedBy(simulate_sequence(heap, screw_config, corner_weights,
                                               adjustments, bed_mesh_data),
                              bed_mesh_data)} :
          /\ called' = [op |-> "simulate_sequence", adjustments |-> adjustments,
                        again |-> TRUE, first |-> called.first]
          /\ outcome' = Returned(r.mesh)
          /\ heap' = << r.bed >>
    /\ UNCHANGED << bed_mesh_data, settings, screw_config, corner_weights,
                    tape_calculator, returned,
                    app >>

\* solver.estimate_total_improvement(adjustments) for a list made of the
\* adjustments calculate_adjustments returned
EstimateTotalImprovement ==
    /\ called.op = "calculate_adjustments"
    /\ \E adjustments \in AdjustmentLists(outcome.value) :
          /\ called' = [op |-> "estimate_total_improvement", adjustments |-> adjustments]
          /\ outcome' = Returned(estimate_total_improvement(heap, screw_config,
                                     corner_weights, adjustments, bed_mesh_data))
    /\ UNCHANGED << heap, bed_mesh_data, settings, screw_config, corner_weights,
                    tape_calculator, returned, app >>

SolverNext ==
    CalculateAdjustments \/ SimulateSequence \/ SimulatePermuted \/ EstimateTotalImprovement

SolverSpec == SolverInit /\ [][SolverNext]_vars

\* the 5 x 5 mesh that is 0 everywhere except mesh[0][0] = 0.5
RaisedFrontLeftMesh == [c \in Cells |-> IF c = << 0, 0 >> THEN 50 * CENTI ELSE 0]

\* C14: for that mesh with pitch 0.7, min_adjustment 0.02 and
\* max_adjustment 4.0, calculate_adjustments against the ideal plane returns
\* exactly one ScrewAdjustment, for front_left, clockwise (lowering) with
\* turns > 0, and the simulated mesh has a smaller deviation than before
C14_SingleFrontLeftAdjustment ==
    ( /\ heap[bed_mesh_data] = RaisedFrontLeftMesh
      /\ screw_config = [pitch |-> 70 * CENTI, min_adjust |-> 2 * CENTI,
                         max_adjust |-> 400 * CENTI] )
    => /\ called.op = "calculate_adjustments" =>
             /\ Len(outcome.value) = 1
             /\ outcome.value[1].corner = "front_left"
             /\ outcome.value[1].direction = "CLOCKWISE"
             /\ outcome.value[1].turns.num > 0
       /\ called.op = "simulate_sequence" =>
             compute_stage_deviation(outcome.value)
                 < compute_stage_deviation(heap[bed_mesh_data])

\* |current_height - target_height| of an adjustment
AdjustmentDeviation(a) == Abs(a.current_height - a.target_height)

\* C18: calculate_adjustments returns at most one adjustment per corner and
\* none with zero minutes; the priority is 1 when |current - target| > 0.4,
\* 2 when > 0.3, 3 when > 0.2 and 4 otherwise; the list is ordered by
\* priority ascending and, within a priority, by |current - target| descending
C18_AdjustmentsFilteredAndSorted ==
    called.op = "calculate_adjustments" =>
        \A i \in 1 .. Len(outcome.value) :
            /\ outcome.value[i].minutes.num > 0
            /\ outcome.value[i].current_height
                  = get_corner_height(heap[bed_mesh_data], outcome.value[i].corner, 1)
            /\ outcome.value[i].target_height = NpMean(heap[bed_mesh_data])
            /\ outcome.value[i].priority
                  = (IF AdjustmentDeviation(outcome.value[i]) > 40 * CENTI THEN 1
                     ELSE IF AdjustmentDeviation(outcome.value[i]) > 30 * CENTI THEN 2
                     ELSE IF AdjustmentDeviation(outcome.value[i]) > 20 * CENTI THEN 3
                     ELSE 4)
            /\ \A j \in i + 1 .. Len(outcome.value) :
                  /\ outcome.value[i].corner # outcome.value[j].corner
                  /\ \/ outcome.value[i].priority < outcome.value[j].priority
                     \/ /\ outcome.value[i].priority = outcome.value[j].priority
                        /\ AdjustmentDeviation(outcome.value[i])
                              >= AdjustmentDeviation(outcome.value[j])

\* four corners are adjusted; the list starts with a corner other than
\* front_left, which has the lowest priority number, and the next two
\* entries share a priority and are ordered by deviation
C18_Witness ==
    /\ called.op = "calculate_adjustments"
    /\ Len(outcome.value) = 4
    /\ outcome.value[1].corner # "front_left"
    /\ outcome.value[1].priority < outcome.value[2].priority
    /\ outcome.value[2].priority = outcome.value[3].priority
    /\ AdjustmentDeviation(outcome.value[2]) > AdjustmentDeviation(outcome.value[3])

\* the signed height change x weight map of one adjustment at cell c
Contribution(config, weights, adjustment, c) ==
    (height_change_from_minutes(config, adjustment.minutes, adjustment.direction)
        * weights[adjustment.corner][c]) \div WDen

\* C19: simulate_sequence gives the base mesh plus the sum over the
\* adjustments of (signed height change x that corner's weight map), and
\* the same mesh for the adjustments in any other order
C19_SimulationOrderIndependent ==
    called.op = "simulate_sequence" =>
        /\ outcome.value
              = [c \in Cells |->
                    heap[bed_mesh_data][c]
                    + SeqSum([i \in 1 .. Len(called.adjustments) |->
                                 Contribution(screw_config, corner_weights,
                                              called.adjustments[i], c)])]
        /\ called.again => outcome.value = called.first

\* three adjustments simulated a second time in another order, front_left
\* no longer first, one corner adjusted twice
C19_Witness ==
    /\ called.op = "simulate_sequence"
    /\ called.again
    /\ Len(called.adjustments) = 3
    /\ called.adjustments[1].corner = called.adjustments[3].corner
    /\ called.adjustments[2].corner = "front_left"
    /\ outcome.value # heap[bed_mesh_data]
    /\ outcome.value = called.first

\* ---------------------------------------------------------------- Bed calls
\* Bed.mesh_data before any mesh is assigned (None): the null reference
NoMesh == 0

\* arrays handed to set_mesh_data are filled from levels 0 .. MaxFill
MaxFill == 1

ValueError(message) == [type |-> "ValueError", message |-> message]

\* data.shape of a two-dimensional array
Shape(data) ==
    << 1 + (CHOOSE r \in {c[1] : c \in DOMAIN data} : \A c \in DOMAIN data : c[1] <= r),
       1 + (CHOOSE r \in {c[2] : c \in DOMAIN data} : \A c \in DOMAIN data : c[2] <= r) >>

\* an array of the given shape, tilted along the rows or flat
ArrayOf(rows, cols, level, tilted) ==
    [c \in GridCells(rows, cols) |->
        (level + c[2] + (IF tilted THEN 2 * c[1] ELSE 0)) * 5 * CENTI]

ArrayInputs ==
    {ArrayOf(shape[1], shape[2], level, tilted) :
        shape \in {<< Rows, Cols >>, << Rows - 1, Cols >>, << Rows, Cols + 1 >>,
                   << Rows - 1, Cols - 1 >>},
        level \in 0 .. MaxFill, tilted \in BOOLEAN}

\* a mutation of set_mesh_data: assigns the array before checking its shape
set_mesh_data_assigning_first(h, mesh_data, data) ==
    [heap |-> << data >>, mesh_data |-> 1,
     outcome |-> IF Shape(data) # << Rows, Cols >>
                 THEN Raised(ValueError("wrong mesh size"))
                 ELSE Returned(NoneVal)]

\* Bed.set_mesh_data(data): the shape is checked before the assignment
set_mesh_data(h, mesh_data, data) ==
    IF Shape(data) # << Rows, Cols >>
    THEN [heap |-> h, mesh_data |-> mesh_data,
          outcome |-> Raised(ValueError("wrong mesh size"))]
    ELSE [heap |-> << data >>, mesh_data |-> 1, outcome |-> Returned(NoneVal)]

\* Bed.get_corner_height(corner) as called from outside, with its checks
corner_height_of(h, mesh_data, corner) ==
    IF mesh_data = NoMesh THEN Raised(ValueError("mesh data not set"))
    ELSE IF corner \notin DOMAIN corners THEN Raised(ValueError("unknown corner"))
    ELSE Returned(get_corner_height(h[mesh_data], corner, 1))

\* Bed.get_mesh_stats(): (mean, min, max)
get_mesh_stats(h, mesh_data) ==
    IF mesh_data = NoMesh THEN Raised(ValueError("mesh data not set"))
    ELSE Returned(<< NpMean(h[mesh_data]), NpMin(h[mesh_data]), NpMax(h[mesh_data]) >>)

\* Bed.get_point_height(x, y)
get_point_height(h, mesh_data, x, y) ==
    IF mesh_data = NoMesh THEN Raised(ValueError("mesh data not set"))
    ELSE IF ~(0 <= x /\ x < Rows /\ 0 <= y /\ y < Cols)
    THEN Raised(ValueError("coordinates out of range"))
    ELSE Returned(h[mesh_data][<< x, y >>])

\* Bed.generate_ideal_plane() as called from outside, with its check
ideal_plane_of(h, mesh_data) ==
    IF mesh_data = NoMesh THEN Raised(ValueError("mesh data not set"))
    ELSE Returned(generate_ideal_plane(h[mesh_data]))

\* Bed(BedConfig()): no mesh yet
BedInit ==
    /\ heap = << >>
    /\ bed_mesh_data = NoMesh
    /\ called = NoCall
    /\ outcome = NoOutcome
    /\ app = NoApp
    /\ settings = NoneVal
    /\ screw_config = NoneVal
    /\ corner_weights = << >>
    /\ tape_calculator = NoneVal
    /\ returned = << >>

SetMeshData ==
    /\ \E data \in ArrayInputs :
       \E r \in {set_mesh_data(heap, bed_mesh_data, data)} :
          /\ called' = [op |-> "set_mesh_data", data |-> data]
          /\ heap' = r.heap
          /\ bed_mesh_data' = r.mesh_data
          /\ outcome' = r.outcome
    /\ UNCHANGED << settings, screw_config, corner_weights, tape_calculator, returned,
                    app >>

GetCornerHeight ==
    /\ \E corner \in DOMAIN corners \cup {"centre"} :
          /\ called' = [op |-> "get_corner_height", corner |-> corner]
          /\ outcome' = corner_height_of(heap, bed_mesh_data, corner)
    /\ UNCHANGED << heap, bed_mesh_data, settings, screw_config, corner_weights,
                    tape_calculator, returned,
                    app >>

GetMeshStats ==
    /\ called' = [op |-> "get_mesh_stats"]
    /\ outcome' = get_mesh_stats(heap, bed_mesh_data)
    /\ UNCHANGED << heap, bed_mesh_data, settings, screw_config, corner_weights,
                    tape_calculator, returned,
                    app >>

GetPointHeight ==
    /\ \E x \in {-1, 0, Rows - 1, Rows}, y \in {-1, 0, Cols - 1, Cols} :
          /\ called' = [op |-> "get_point_height", x |-> x, y |-> y]
          /\ outcome' = get_point_height(heap, bed_mesh_data, x, y)
    /\ UNCHANGED << heap, bed_mesh_data, settings, screw_config, corner_weights,
                    tape_calculator, returned,
                    app >>

GenerateIdealPlane ==
    /\ called' = [op |-> "generate_ideal_plane"]
    /\ outcome' = ideal_plane_of(heap, bed_mesh_data)
    /\ UNCHANGED << heap, bed_mesh_data, settings, screw_config, corner_weights,
                    tape_calculator, returned,
                    app >>

BedNext ==
    \/ SetMeshData
    \/ GetCornerHeight
    \/ GetMeshStats
    \/ GetPointHeight
    \/ GenerateIdealPlane

BedSpec == BedInit /\ [][BedNext]_vars

BedQueries ==
    {"get_corner_height", "get_mesh_stats", "get_point_height", "generate_ideal_plane"}

\* C15: get_corner_height, get_mesh_stats, get_point_height and
\* generate_ideal_plane raise the mesh-data-not-set error, returning nothing,
\* when no mesh has been assigned; set_mesh_data raises the wrong-size error
\* when the array's shape differs from (mesh_points_x, mesh_points_y) and
\* then leaves mesh_data (an array or None) as it was
C15_BedFailsFast ==
    [][ /\ (called'.op \in BedQueries /\ bed_mesh_data = NoMesh) =>
              /\ outcome'.status = "raised"
              /\ outcome'.error = ValueError("mesh data not set")
              /\ bed_mesh_data' = NoMesh
        /\ (called'.op = "set_mesh_data" /\ Shape(called'.data) # << Rows, Cols >>) =>
              /\ outcome'.status = "raised"
              /\ outcome'.error = ValueError("wrong mesh size")
              /\ bed_mesh_data' = bed_mesh_data
              /\ heap' = heap ]_vars

\* an array with a row missing was refused while the bed held a mesh
C15_Witness ==
    /\ called.op = "set_mesh_data"
    /\ Shape(called.data) = << Rows - 1, Cols >>
    /\ outcome.status = "raised"
    /\ bed_mesh_data = 1
    /\ heap[bed_mesh_data] = ArrayOf(Rows, Cols, 1, TRUE)

\* ---------------------------------------------------------------- settings service
\* ThermalPreset(...) with the dataclass defaults for the other fields
ThermalPreset(name, measurement_temp, target_temp, chamber_factor) ==
    [name |-> name, measurement_temp |-> measurement_temp, target_temp |-> target_temp,
     chamber_factor |-> chamber_factor, pei_thickness |-> 55 * CENTI,
     steel_thickness |-> 150 * CENTI, alpha_pei |-> 200, alpha_steel |-> 48,
     beta_uniform |-> 20 * CENTI]

\* ApplicationSettings(): the dataclass defaults
DefaultSettings ==
    [theme |-> "light", language |-> "en", last_file |-> NoneVal,
     hardware |-> [screw_pitch |-> 70 * CENTI, min_adjustment |-> 2 * CENTI,
                   max_adjustment |-> 400 * CENTI, tape_thickness |-> 6 * CENTI,
                   belt_tooth_mm |-> 40 * CENTI, corner_averaging |-> 0,
                   screw_mode |-> "hold_nut"],
     thresholds |-> [belt_threshold |-> 40 * CENTI, screw_threshold |-> 19 * CENTI,
                     tape_threshold |-> 1 * CENTI],
     visualization |-> [interpolation_factor |-> 100, show_minutes |-> TRUE,
                        show_degrees |-> TRUE],
     environment |-> [measurement_temp |-> 25, target_temp |-> 25,
                      thermal_expansion_coeff |-> 0],
     workflow |-> [enable_belt |-> TRUE, enable_screws |-> TRUE, enable_tape |-> TRUE],
     ssh |-> [host |-> "", username |-> "", password |-> "", printer_cfg_path |-> ""],
     thermal_presets |-> << ThermalPreset("PLA 50", 60, 50, 25 * CENTI),
                            ThermalPreset("PETG 70", 60, 70, 30 * CENTI),
                            ThermalPreset("ABS 100", 60, 100, 40 * CENTI) >>,
     active_thermal_preset |-> "ABS 100"]

SettingsGroups == {"hardware", "thresholds", "visualization", "environment", "workflow", "ssh"}

\* ApplicationSettings.to_dict(): asdict(self), written as JSON
to_dict(st) == [key \in DOMAIN st |-> st[key]]

\* merge_dataclass(dataclass_type, values): the defaults, overridden by the
\* keys of values the dataclass has
merge_dataclass(base, values) ==
    [key \in DOMAIN base |-> IF key \in DOMAIN values THEN values[key] ELSE base[key]]

\* ApplicationSettings.from_dict(payload)
from_dict(payload) ==
    LET instance ==
            [key \in DOMAIN DefaultSettings |->
                IF key \notin DOMAIN payload THEN DefaultSettings[key]
                ELSE IF key \in SettingsGroups
                THEN merge_dataclass(DefaultSettings[key], payload[key])
                ELSE IF key = "thermal_presets"
                THEN [i \in 1 .. Len(payload[key]) |->
                         merge_dataclass(ThermalPreset("ABS 100", 60, 100, 35 * CENTI),
                                         payload[key][i])]
                ELSE payload[key]]
    IN  IF instance.active_thermal_preset = NoneVal /\ Len(instance.thermal_presets) > 0
        THEN [instance EXCEPT !.active_thermal_preset = instance.thermal_presets[1].name]
        ELSE instance

\* the settings file: absent, or holding a JSON payload
NoFile == [exists |-> FALSE, payload |-> << >>]
FileOf(payload) == [exists |-> TRUE, payload |-> payload]

\* settings without thermal presets: the defaults, a tape thickness of 0,
\* and the tape stage switched off
AppSettingsInputs ==
    {[DefaultSettings EXCEPT !.thermal_presets = << >>,
                             !.hardware.tape_thickness = case[1],
                             !.workflow.enable_tape = case[2]] :
        case \in {<< 6 * CENTI, TRUE >>, << 0, TRUE >>, << 6 * CENTI, FALSE >>}}

\* what the settings file can hold: settings saved by the application, or a
\* hand-written file with a few keys
SettingsFileInputs ==
    {to_dict(st) : st \in AppSettingsInputs}
    \cup {[hardware |-> [tape_thickness |-> 0], thermal_presets |-> << >>,
           comment |-> "edited"]}

\* the active preset of _compute_workflow: the one named by
\* active_thermal_preset, else the first
ActivePreset(st) ==
    IF \E i \in 1 .. Len(st.thermal_presets) :
          st.thermal_presets[i].name = st.active_thermal_preset
    THEN st.thermal_presets[CHOOSE i \in 1 .. Len(st.thermal_presets) :
            /\ st.thermal_presets[i].name = st.active_thermal_preset
            /\ \A j \in 1 .. i - 1 :
                  st.thermal_presets[j].name # st.active_thermal_preset]
    ELSE st.thermal_presets[1]

\* settings_payload of AppState._compute_workflow
PayloadGroups(st) ==
    [hardware |-> [tape_thickness |-> st.hardware.tape_thickness,
                   belt_tooth_mm |-> st.hardware.belt_tooth_mm,
                   screw_pitch |-> st.hardware.screw_pitch,
                   min_adjustment |-> st.hardware.min_adjustment,
                   max_adjustment |-> st.hardware.max_adjustment,
                   corner_averaging |-> st.hardware.corner_averaging],
     thresholds |-> [belt_threshold |-> st.thresholds.belt_threshold,
                     screw_threshold |-> st.thresholds.screw_threshold,
                     tape_threshold |-> st.thresholds.tape_threshold],
     visualization |-> [interpolation_factor |-> st.visualization.interpolation_factor],
     workflow |-> [enable_belt |-> st.workflow.enable_belt,
                   enable_screws |-> st.workflow.enable_screws,
                   enable_tape |-> st.workflow.enable_tape],
     environment |-> [measurement_temp |-> st.environment.measurement_temp,
                      target_temp |-> st.environment.target_temp,
                      thermal_expansion_coeff |-> st.environment.thermal_expansion_coeff]]

PayloadOf(st) ==
    IF Len(st.thermal_presets) > 0
    THEN [key \in DOMAIN PayloadGroups(st) \cup {"thermal_model"} |->
             IF key = "thermal_model" THEN ActivePreset(st) ELSE PayloadGroups(st)[key]]
    ELSE PayloadGroups(st)

\* ---------------------------------------------------------------- AppState
\* a printer.cfg holds 0 .. MaxProfiles bed mesh profiles
MaxProfiles == 2

ProfileNames == << "default", "hot", "cold", "spare" >>

\* the mesh of the k-th profile: a dipped centre, and the front-left or the
\* front-right corner raised in every second and third profile
ProfileMesh(k) == MeshOf(((k + 1) % 3) - 1, 0, 1)

\* matrix.flatten(): the values of a rows x cols array row by row, and
\* np.array(flat).reshape(rows, cols)
Flatten(matrix, rows, cols) ==
    [i \in 1 .. rows * cols |-> matrix[<< (i - 1) \div cols, (i - 1) % cols >>]]

Reshape(flat, rows, cols) ==
    [c \in GridCells(rows, cols) |-> flat[c[1] * cols + c[2] + 1]]

\* a mesh section of printer.cfg with its points, x_count and y_count
SectionOf(name, x_count, y_count, points) ==
    [name |-> name, x_count |-> x_count, y_count |-> y_count, points |-> points]

\* what _build_mesh_data returns when it caught an error (None)
NoMeshData == [name |-> NoneVal]

\* FlashforgeMeshParser._build_mesh_data(profile_name, params): None when
\* the number of points is not x_count * y_count, else a MeshData whose
\* matrix has y_count rows and x_count columns
build_mesh_data(section) ==
    IF section.x_count * section.y_count # Len(section.points) THEN NoMeshData
    ELSE [name |-> section.name,
          matrix |-> Reshape(section.points, section.y_count, section.x_count),
          x_count |-> section.x_count,
          y_count |-> section.y_count]

\* parser.parse_config_file(content): the profiles that could be built, in
\* file order
RECURSIVE ParseFrom(_, _)
ParseFrom(sections, k) ==
    IF k > Len(sections) THEN << >>
    ELSE IF build_mesh_data(sections[k]) = NoMeshData THEN ParseFrom(sections, k + 1)
    ELSE << build_mesh_data(sections[k]) >> \o ParseFrom(sections, k + 1)

parse_config_file(sections) == ParseFrom(sections, 1)

\* the sections of a file with n square profiles
SectionsOf(n) ==
    [k \in 1 .. n |-> SectionOf(ProfileNames[k], Rows, Cols, Flatten(ProfileMesh(k), Rows, Cols))]

\* a profile measured on 3 x 2 points, and a section whose points do not
\* match its counts
WideSection == SectionOf("wide", 3, 2, [i \in 1 .. 6 |-> i * 5 * CENTI])
BrokenSection == SectionOf("broken", 3, 2, [i \in 1 .. 5 |-> 0])

ProfilesOf(n) == parse_config_file(SectionsOf(n))

ConfigFileInputs ==
    {ProfilesOf(n) : n \in 0 .. MaxProfiles}
    \cup {parse_config_file(<< WideSection >>),
          parse_config_file(<< BrokenSection >> \o SectionsOf(1) \o << WideSection >>)}

\* the shape test of Bed(BedConfig(mesh_points_x=mesh.x_count,
\* mesh_points_y=mesh.y_count)).set_mesh_data(mesh.matrix)
MeshFits(mesh) == Shape(mesh.matrix) = << mesh.x_count, mesh.y_count >>

HasProfile(profiles, name) == \E k \in 1 .. Len(profiles) : profiles[k].name = name

\* self.profiles[profile_name]
ProfileNamed(profiles, name) ==
    profiles[CHOOSE k \in 1 .. Len(profiles) : profiles[k].name = name]

\* bed.set_mesh_data(mesh.matrix) makes the bed and the profile share one
\* array: the profiles as seen after the bed's array became mesh
SharingMatrix(profiles, name, mesh) ==
    [k \in 1 .. Len(profiles) |->
        IF profiles[k].name = name THEN [profiles[k] EXCEPT !.matrix = mesh]
        ELSE profiles[k]]

NoWorkflow == [status |-> "none"]

\* find_low_spots reaches int(np.ceil(diff / self.tape_thickness)) for a
\* cell away from the screws that lies more than min_height_diff below the
\* mean; with tape_thickness = 0 the quotient is infinite and int() raises
CeilOverflows(tc, mesh) ==
    /\ tc.tape_thickness = 0
    /\ \E c \in Cells : /\ ~is_near_screw(c[1], c[2])
                        /\ NpMean(mesh) - mesh[c] > tc.min_height_diff

\* the exception leaving compute_workflow from the tape stage, with the
\* solver's weight maps and the bed's array as the earlier stages left them
FailureAfterScrews(bed_ref, tc, workflow_flags, belt, screw) ==
    IF Get(workflow_flags, "enable_tape", TRUE) /\ CeilOverflows(tc, screw.heap[screw.mesh])
    THEN [status |-> "raised", error |-> [type |-> "OverflowError"],
          solver |-> belt.solver, bed |-> screw.heap[bed_ref]]
    ELSE [status |-> "none"]

FailureAfterBelts(bed_ref, config, tc, workflow_flags, belt) ==
    InOrder(<< belt >>,
        FailureAfterScrews(bed_ref, tc, workflow_flags, belt,
            build_screw_stage(belt.heap, bed_ref, config, belt.solver, belt.mesh,
                              Get(workflow_flags, "enable_screws", TRUE))))

FailureAfterInitial(bed_ref, config, solver_weights, tc, settings_payload, workflow_flags, mesh_state, initial) ==
    InOrder(<< initial >>,
        FailureAfterBelts(bed_ref, config, tc, workflow_flags,
            build_belt_stage(initial.heap, bed_ref, solver_weights, settings_payload,
                             mesh_state.ref, Get(workflow_flags, "enable_belt", TRUE))))

FailureAfterCopy(bed_ref, config, solver_weights, tc, settings_payload, workflow_flags, mesh_state) ==
    InOrder(<< mesh_state >>,
        FailureAfterInitial(bed_ref, config, solver_weights, tc, settings_payload,
                            workflow_flags, mesh_state,
                            compute_initial_stage(mesh_state.heap, mesh_state.ref)))

\* whether compute_workflow raises for these objects and settings
compute_workflow_failure(h, bed_ref, config, solver_weights, tc, settings_payload) ==
    IF tc.tape_thickness # 0 THEN [status |-> "none"]
    ELSE FailureAfterCopy(bed_ref, config, solver_weights, tc, settings_payload,
                          WorkflowFlags(settings_payload), NpCopy(h, bed_ref))

\* the WorkflowData a call returned, its stage meshes read from the heap
WorkflowValue(r, bed_ref) ==
    [status |-> "returned",
     value |-> [r.data EXCEPT !.stages =
                   [i \in 1 .. Len(r.data.stages) |->
                       [r.data.stages[i] EXCEPT !.mesh = r.heap[r.data.stages[i].mesh]]]],
     solver |-> r.solver, bed |-> r.heap[bed_ref]]

ReturnedUnless(failure, h, bed_ref, config, solver_weights, tc, settings_payload) ==
    IF failure.status = "raised" THEN failure
    ELSE WorkflowValue(compute_workflow(h, bed_ref, config, solver_weights, tc,
                                        settings_payload), bed_ref)

\* compute_workflow(bed, analyzer, screw_solver, tape_calculator, settings_payload)
\* as AppState._compute_workflow calls it: what it returned or raised
try_compute_workflow(h, bed_ref, config, solver_weights, tc, st) ==
    ReturnedUnless(compute_workflow_failure(h, bed_ref, config, solver_weights, tc,
                                            PayloadOf(st)),
                   h, bed_ref, config, solver_weights, tc, PayloadOf(st))

\* AppState(settings_service) for a service whose settings were loaded or
\* set before; no printer.cfg has been opened
AppInit ==
    /\ settings \in AppSettingsInputs
    /\ \E stored \in {NoFile} \cup {FileOf(payload) : payload \in SettingsFileInputs} :
          app = [status |-> "running", service_settings |-> settings, stored |-> stored,
                 profiles |-> << >>, active_profile_name |-> NoneVal,
                 has_workspace |-> FALSE, workspace_mesh |-> NoneVal,
                 workflow |-> NoWorkflow,
                 last_printer_cfg |-> NoneVal]
    /\ heap = << >>
    /\ bed_mesh_data = NoMesh
    /\ screw_config = NoneVal
    /\ corner_weights = << >>
    /\ tape_calculator = NoneVal
    /\ returned = << >>
    /\ called = NoCall
    /\ outcome = NoOutcome

\* the AppState after _compute_workflow returned or raised c: a returned
\* WorkflowData is stored in the workspace, otherwise the workspace keeps
\* the workflow field it had (kept)
AfterCompute(a, c, kept) ==
    [a EXCEPT !.workflow = IF c.status = "returned"
                           THEN [status |-> "stored", value |-> c.value]
                           ELSE kept,
              !.profiles = SharingMatrix(a.profiles, a.workspace_mesh, c.bed)]

OutcomeOf(c) == IF c.status = "returned" THEN Returned(c.value) ELSE Raised(c.error)

\* the service's settings after SettingsService.load(), and the file after it
LoadedSettings(service_settings, stored) ==
    IF stored.exists THEN from_dict(stored.payload) ELSE service_settings

LoadedFile(service_settings, stored) ==
    IF stored.exists THEN stored ELSE FileOf(to_dict(service_settings))

\* AppState.reload_settings()
ReloadSettings ==
    /\ called' = [op |-> "reload_settings"]
    /\ settings' = LoadedSettings(app.service_settings, app.stored)
    /\ app' = [app EXCEPT !.service_settings = LoadedSettings(app.service_settings, app.stored),
                          !.stored = LoadedFile(app.service_settings, app.stored)]
    /\ outcome' = Returned(NoneVal)
    /\ UNCHANGED << heap, bed_mesh_data, screw_config, corner_weights, tape_calculator,
                    returned >>

\* AppState.save_settings()
SaveSettings ==
    /\ called' = [op |-> "save_settings"]
    /\ settings' = app.service_settings
    /\ app' = [app EXCEPT !.stored = FileOf(to_dict(app.service_settings))]
    /\ outcome' = Returned(NoneVal)
    /\ UNCHANGED << heap, bed_mesh_data, screw_config, corner_weights, tape_calculator,
                    returned >>

\* AppState.update_settings(settings): the settings object of the settings
\* view, which keeps last_file
UpdateSettings ==
    \E given \in {[st EXCEPT !.last_file = settings.last_file] : st \in AppSettingsInputs} :
       /\ called' = [op |-> "update_settings"]
       /\ settings' = given
       /\ returned' = returned
       /\ IF ~app.has_workspace
          THEN /\ app' = [app EXCEPT !.service_settings = given,
                                     !.stored = FileOf(to_dict(given))]
               /\ outcome' = Returned(NoneVal)
               /\ UNCHANGED << heap, bed_mesh_data, screw_config, corner_weights,
                               tape_calculator >>
          ELSE \E c \in {try_compute_workflow(heap, bed_mesh_data, ScrewConfigOf(given),
                                              compute_corner_weights,
                                              TapeCalculatorOf(given), given)} :
                  /\ screw_config' = ScrewConfigOf(given)
                  /\ tape_calculator' = TapeCalculatorOf(given)
                  /\ corner_weights' = c.solver
                  /\ heap' = << c.bed >>
                  /\ bed_mesh_data' = bed_mesh_data
                  /\ app' = AfterCompute([app EXCEPT !.service_settings = given,
                                                     !.stored = FileOf(to_dict(given))],
                                         c, app.workflow)
                  /\ outcome' = OutcomeOf(c)

\* the part load_printer_config and switch_profile share: a new bed, solver
\* and calculator for the mesh, a new workspace without workflow, and then
\* _compute_workflow()
OpenWorkspace(a, st, name) ==
    \E c \in {try_compute_workflow(<< ProfileNamed(a.profiles, name).matrix >>, 1,
                                   ScrewConfigOf(st), compute_corner_weights,
                                   TapeCalculatorOf(st), st)} :
       /\ settings' = st
       /\ screw_config' = ScrewConfigOf(st)
       /\ tape_calculator' = TapeCalculatorOf(st)
       /\ corner_weights' = c.solver
       /\ heap' = << c.bed >>
       /\ bed_mesh_data' = 1
       /\ app' = AfterCompute([a EXCEPT !.active_profile_name = name,
                                        !.has_workspace = TRUE,
                                        !.workspace_mesh = name],
                              c, NoWorkflow)
       /\ outcome' = OutcomeOf(c)

\* bed.set_mesh_data(mesh.matrix) on the new bed comes first: when it raises,
\* the AppState is left as it is at that point (failed); otherwise the
\* workspace is built and the call goes on with the AppState opened
BuildWorkspace(failed, opened, st, name) ==
    IF ~MeshFits(ProfileNamed(failed.profiles, name))
    THEN /\ outcome' = Raised(ValueError("wrong mesh size"))
         /\ app' = failed
         /\ UNCHANGED << heap, bed_mesh_data, settings, screw_config, corner_weights,
                         tape_calculator >>
    ELSE OpenWorkspace(opened, st, name)

\* AppState.load_printer_config(file_path) for a file that parses to profiles
LoadPrinterConfig ==
    \E profiles \in ConfigFileInputs :
       /\ called' = [op |-> "load_printer_config"]
       /\ returned' = returned
       /\ IF Len(profiles) = 0
          THEN /\ outcome' = Raised(ValueError("failed_to_parse_mesh"))
               /\ UNCHANGED << heap, bed_mesh_data, settings, screw_config, corner_weights,
                               tape_calculator, app >>
          ELSE BuildWorkspace(
                  [app EXCEPT !.profiles = profiles,
                              !.active_profile_name = profiles[1].name],
                  [app EXCEPT !.profiles = profiles,
                              !.last_printer_cfg = "printer.cfg",
                              !.service_settings = [settings EXCEPT !.last_file = "printer.cfg"],
                              !.stored = FileOf(to_dict([settings EXCEPT !.last_file = "printer.cfg"]))],
                  [settings EXCEPT !.last_file = "printer.cfg"],
                  profiles[1].name)

\* AppState.switch_profile(profile_name)
SwitchProfile ==
    \E profile_name \in {ProfileNames[k] : k \in 1 .. MaxProfiles + 1} \cup {"wide"} :
       /\ called' = [op |-> "switch_profile"]
       /\ returned' = returned
       /\ IF ~HasProfile(app.profiles, profile_name)
          THEN /\ outcome' = Returned(NoneVal)
               /\ UNCHANGED << heap, bed_mesh_data, settings, screw_config, corner_weights,
                               tape_calculator, app >>
          ELSE BuildWorkspace([app EXCEPT !.active_profile_name = profile_name],
                              app, settings, profile_name)

\* AppState.recompute_workflow()
RecomputeWorkflow ==
    /\ called' = [op |-> "recompute_workflow"]
    /\ IF ~app.has_workspace
       THEN /\ outcome' = Returned(NoneVal)
            /\ UNCHANGED << heap, bed_mesh_data, corner_weights, app >>
       ELSE \E c \in {try_compute_workflow(heap, bed_mesh_data, screw_config,
                                           corner_weights, tape_calculator, settings)} :
               /\ corner_weights' = c.solver
               /\ heap' = << c.bed >>
               /\ bed_mesh_data' = bed_mesh_data
               /\ app' = AfterCompute(app, c, app.workflow)
               /\ outcome' = OutcomeOf(c)
    /\ UNCHANGED << settings, screw_config, tape_calculator, returned >>

\* the settings file is rewritten from outside the application (edited by
\* hand, or saved by a second running instance)
SettingsFileEdited ==
    /\ \E payload \in SettingsFileInputs :
          /\ app.stored # FileOf(payload)
          /\ app' = [app EXCEPT !.stored = FileOf(payload)]
    /\ UNCHANGED << heap, bed_mesh_data, settings, screw_config, corner_weights,
                    tape_calculator, returned, called, outcome >>

AppNext ==
    \/ ReloadSettings
    \/ SaveSettings
    \/ UpdateSettings
    \/ LoadPrinterConfig
    \/ SwitchProfile
    \/ RecomputeWorkflow
    \/ SettingsFileEdited

AppSpec == AppInit /\ [][AppNext]_vars

RecomputingCalls ==
    {"update_settings", "switch_profile", "load_printer_config", "recompute_workflow"}

\* C16: when the workflow computation triggered by update_settings,
\* switch_profile, load_printer_config or recompute_workflow raises, the
\* workflow that was cached before the operation is still the one the
\* application state holds
C16_FailedRecomputeKeepsWorkflow ==
    [][ ( /\ called'.op \in RecomputingCalls
          /\ outcome'.status = "raised"
          /\ outcome'.error.type = "OverflowError" )
        => app'.workflow = app.workflow ]_vars

\* C17: whenever a workspace exists, the WorkflowData it stores is what
\* compute_workflow returns for the workspace's mesh and current_settings
\* (states whose workspace stores none, or for which the computation
\* raises, are left aside)
C17_WorkflowNeverStale ==
    (app.status = "running" /\ app.has_workspace /\ app.workflow.status = "stored") =>
        \A c \in {try_compute_workflow(heap, bed_mesh_data, ScrewConfigOf(settings),
                                       compute_corner_weights, TapeCalculatorOf(settings),
                                       settings)} :
            c.status = "returned" => app.workflow.value = c.value

\* ---------------------------------------------------------------- tape layout claims
\* the positions of spots not in used, the first of them (the seed) and the
\* unused positions within Chebyshev distance 1 of the seed
UnusedPositions(spots, used) == {i \in 1 .. Len(spots) : i \notin used}

SeedOf(spots, used) ==
    CHOOSE i \in UnusedPositions(spots, used) :
        \A j \in UnusedPositions(spots, used) : i <= j

MembersOf(spots, used) ==
    {i \in UnusedPositions(spots, used) :
        /\ Abs(spots[i].x - spots[SeedOf(spots, used)].x) <= 1
        /\ Abs(spots[i].y - spots[SeedOf(spots, used)].y) <= 1}

\* the clusters in seeding order, each the set of positions of its members
RECURSIVE ClustersFrom(_, _, _)
ClustersFrom(spots, used, clusters) ==
    IF UnusedPositions(spots, used) = {} THEN clusters
    ELSE ClustersFrom(spots, used \cup MembersOf(spots, used),
                      Append(clusters, MembersOf(spots, used)))

ClustersOf(spots) == ClustersFrom(spots, {}, << >>)

\* the members of a cluster as a list, in input order
MemberList(spots, members) == SelectSeq(spots, LAMBDA s : \E i \in members : spots[i] = s)

\* |x - mean x| + |y - mean y| of a spot within a list, times the list's length
CentroidDistance(list, s) ==
    Abs(Len(list) * s.x - SeqSum([i \in 1 .. Len(list) |-> list[i].x]))
    + Abs(Len(list) * s.y - SeqSum([i \in 1 .. Len(list) |-> list[i].y]))

\* merged is the spot the claim describes for the cluster whose members are list
IsMergeOf(tc, merged, list) ==
    /\ \E i \in 1 .. Len(list) : list[i].x = merged.x /\ list[i].y = merged.y
    /\ \A i \in 1 .. Len(list) : CentroidDistance(list, merged) <= CentroidDistance(list, list[i])
    /\ \A i \in 1 .. Len(list) : merged.priority <= list[i].priority
    /\ \E i \in 1 .. Len(list) : merged.priority = list[i].priority
    /\ merged.area_size = SeqSum([i \in 1 .. Len(list) |-> list[i].area_size])
    /\ merged.layers >= 1
    /\ merged.layers = 1 =>
          SeqSum([i \in 1 .. Len(list) |-> list[i].height_diff.num])
              <= Len(list) * tc.tape_thickness
    /\ merged.layers > 1 =>
          IsCeilOf(merged.layers, SeqSum([i \in 1 .. Len(list) |-> list[i].height_diff.num]),
                   Len(list) * tc.tape_thickness)

\* C21: optimize_tape_layout partitions its input into clusters seeded in
\* input order (a seed plus the unused spots within Chebyshev distance 1);
\* the output has one spot per cluster in seeding order, at the member cell
\* nearest the centroid, with the minimum member priority, the sum of the
\* member areas and layers = max(1, ceil(mean deficit / tape_thickness)); no
\* two output spots share a cell and the total area is preserved
C21_LayoutPartitionsSpots ==
    called.op = "optimize_tape_layout" =>
        /\ \A i \in 1 .. Len(called.spots) :
              Cardinality({k \in 1 .. Len(ClustersOf(called.spots)) :
                              i \in ClustersOf(called.spots)[k]}) = 1
        /\ Len(outcome.value) = Len(ClustersOf(called.spots))
        /\ \A k \in 1 .. Len(outcome.value) :
              IsMergeOf(tape_calculator, outcome.value[k],
                        MemberList(called.spots, ClustersOf(called.spots)[k]))
        /\ \A k \in 1 .. Len(outcome.value) : \A j \in k + 1 .. Len(outcome.value) :
              << outcome.value[k].x, outcome.value[k].y >>
                  # << outcome.value[j].x, outcome.value[j].y >>
        /\ SeqSum([k \in 1 .. Len(outcome.value) |-> outcome.value[k].area_size])
              = SeqSum([i \in 1 .. Len(called.spots) |-> called.spots[i].area_size])

\* three spots merged into one that lies at another cell than the seed, with
\* more than one layer
C21_Witness ==
    /\ called.op = "optimize_tape_layout"
    /\ Len(called.spots) = 3
    /\ Len(outcome.value) = 1
    /\ << outcome.value[1].x, outcome.value[1].y >> # << called.spots[1].x, called.spots[1].y >>
    /\ outcome.value[1].layers > 1

\* the cells within one step of a spot in each direction that lie on the grid
Neighbourhood(spot) ==
    {c \in Cells : Abs(c[1] - spot.x) <= 1 /\ Abs(c[2] - spot.y) <= 1}

\* the sum of layers x tape_thickness over the spots whose neighbourhood
\* contains the cell
RaiseAt(tc, spots, c) ==
    SeqSum([i \in 1 .. Len(spots) |->
               IF c \in Neighbourhood(spots[i]) THEN spots[i].layers * tc.tape_thickness ELSE 0])

\* C22: apply_spots returns a mesh in which each cell is the base value plus
\* the sum of layers x tape_thickness over the spots whose clamped 3x3
\* neighbourhood contains it, whatever the order of the spots; no cell is
\* lowered and the base mesh is left as it was
C22_SpotsRaiseNeighbourhoods ==
    called.op = "apply_spots" =>
        /\ \A c \in Cells :
              /\ outcome.value[c] = called.base_mesh[c] + RaiseAt(tape_calculator, called.spots, c)
              /\ outcome.value[c] >= called.base_mesh[c]
        /\ heap[bed_mesh_data] = called.base_mesh

\* spots applied in another order than find_low_spots returns them, two
\* neighbourhoods sharing a cell, one neighbourhood clamped at the grid edge
C22_Witness ==
    /\ called.op = "apply_spots"
    /\ Len(called.spots) >= 2
    /\ called.spots[1].priority > called.spots[2].priority
    /\ Neighbourhood(called.spots[1]) \cap Neighbourhood(called.spots[2]) # {}
    /\ \E i \in 1 .. Len(called.spots) : Cardinality(Neighbourhood(called.spots[i])) < 9
    /\ \E c \in Cells : outcome.value[c] = called.base_mesh[c]

\* ---------------------------------------------------------------- belt stage calls
\* heights of the three cells the belt stage reads, in 0.01 mm, on and
\* around the thresholds; a mesh uses the first MaxBeltLevel of them (and 0)
MaxBeltLevel == 3
BeltLevels == << 0, 40, 41, -41, 20, 81 >>
BeltLevel(k) == BeltLevels[Min2(k, Len(BeltLevels) - 1) + 1] * CENTI

BeltMeshOf(left_front, right_front, back_center) ==
    [c \in Cells |->
        CASE c = << 0, 0 >>                  -> BeltLevel(left_front)
          [] c = << 0, Cols - 1 >>           -> BeltLevel(right_front)
          [] c = << Rows - 1, Cols \div 2 >> -> BeltLevel(back_center)
          [] OTHER                           -> 0]

BeltMeshInputs ==
    {BeltMeshOf(left_front, right_front, back_center) :
        left_front \in 0 .. MaxBeltLevel, right_front \in 0 .. MaxBeltLevel,
        back_center \in 0 .. MaxBeltLevel}

BeltSettingsInputs ==
    {st \in SettingsInputs : "workflow" \notin DOMAIN st /\ st.environment.target_temp = 25}

\* a bed with a mesh and a solver built for it
BeltInit ==
    /\ \E m \in BeltMeshInputs : heap = << m >>
    /\ bed_mesh_data = 1
    /\ settings \in BeltSettingsInputs
    /\ screw_config = ScrewConfigOf(settings)
    /\ corner_weights = compute_corner_weights
    /\ tape_calculator = TapeCalculatorOf(settings)
    /\ returned = << >>
    /\ called = NoCall
    /\ outcome = NoOutcome
    /\ app = NoApp

\* build_belt_stage(bed, solver, settings, mesh_before, enabled_flag) with a
\* copy of the bed's mesh as mesh_before
BeltStageBuilt(r) ==
    [stage |-> r.stage, stored |-> r.heap[r.stage.mesh], mesh_after |-> r.heap[r.mesh],
     heap |-> r.heap, solver |-> r.solver]

BuildBeltStageOn(mesh_state, enabled_flag) ==
    BeltStageBuilt(build_belt_stage(mesh_state.heap, bed_mesh_data, corner_weights, settings,
                                    mesh_state.ref, enabled_flag))

BuildBeltStage ==
    /\ called.op = "none"
    /\ \E enabled_flag \in BOOLEAN :
       \E r \in {BuildBeltStageOn(NpCopy(heap, bed_mesh_data), enabled_flag)} :
          /\ called' = [op |-> "build_belt_stage", enabled_flag |-> enabled_flag,
                        mesh_before |-> heap[bed_mesh_data]]
          /\ outcome' = Returned([stage |-> r.stage, stored |-> r.stored,
                                  mesh_after |-> r.mesh_after])
          /\ heap' = << r.heap[bed_mesh_data] >>
          /\ corner_weights' = r.solver
    /\ UNCHANGED << bed_mesh_data, settings, screw_config, tape_calculator, returned, app >>

BeltNext == BuildBeltStage

BeltSpec == BeltInit /\ [][BeltNext]_vars

\* the three heights the belt stage compares, the threshold and the tooth
\* pitch of a call
LeftFront == called.mesh_before[<< 0, 0 >>]
RightFront == called.mesh_before[<< 0, Cols - 1 >>]
BackCenter == called.mesh_before[<< Rows - 1, Cols \div 2 >>]
BeltThreshold ==
    Get(settings.thresholds, "belt_threshold", settings.thresholds.screw_threshold)
ToothMm == Get(settings.hardware, "belt_tooth_mm", 40 * CENTI)

IsFrontAction(a) == a.identifier \in {"front_left", "front_right"}

\* position of an identifier in the order front_left, front_right, back
BeltRank(identifier) ==
    CASE identifier = "front_left" -> 1
      [] identifier = "front_right" -> 2
      [] identifier = "back" -> 3
      [] OTHER -> 4

\* a is the front action the claim describes
FrontActionAsClaimed(a) ==
    /\ a.teeth >= 1
    /\ IsCeilOf(a.teeth, Abs(RightFront - LeftFront), ToothMm)
    /\ a.magnitude_mm = a.teeth * ToothMm
    /\ a.identifier = (IF LeftFront < RightFront THEN "front_left" ELSE "front_right")
    /\ a.direction = "up"
    /\ a.metadata.gain = FRONT_SHAFT_GAIN

\* a is the back action the claim describes
BackActionAsClaimed(a) ==
    /\ a.teeth >= 1
    /\ IsCeilOf(a.teeth, Abs(2 * BackCenter - (LeftFront + RightFront)), 2 * ToothMm)
    /\ a.magnitude_mm = a.teeth * ToothMm
    /\ a.direction = (IF 2 * BackCenter < LeftFront + RightFront THEN "up" ELSE "down")
    /\ a.metadata.gain = BACK_SHAFT_GAIN

BeltActionsAsClaimed(actions) ==
    /\ (\E i \in 1 .. Len(actions) : IsFrontAction(actions[i]))
          <=> Abs(RightFront - LeftFront) > BeltThreshold
    /\ (\E i \in 1 .. Len(actions) : actions[i].identifier = "back")
          <=> Abs(2 * BackCenter - (LeftFront + RightFront)) > 2 * BeltThreshold
    /\ \A i \in 1 .. Len(actions) :
          /\ actions[i].kind = "belt"
          /\ BeltRank(actions[i].identifier) <= 3
          /\ IsFrontAction(actions[i]) => FrontActionAsClaimed(actions[i])
          /\ actions[i].identifier = "back" => BackActionAsClaimed(actions[i])
    /\ Cardinality({i \in 1 .. Len(actions) : IsFrontAction(actions[i])}) <= 1
    /\ Cardinality({i \in 1 .. Len(actions) : actions[i].identifier = "back"}) <= 1
    /\ \A i \in 1 .. Len(actions) : \A j \in i + 1 .. Len(actions) :
          BeltRank(actions[i].identifier) < BeltRank(actions[j].identifier)

\* C23: the enabled belt stage emits a front action exactly when
\* |front_right - front_left| exceeds the belt threshold and a back action
\* exactly when |back_center - (front_left + front_right) / 2| exceeds it;
\* each has teeth = max(1, ceil(|diff| / tooth_mm)) and magnitude
\* teeth x tooth_mm; the front action targets the lower front corner with
\* direction up and the front gain, the back action is up when the back is
\* below the front average and down otherwise, with the back gain; the front
\* gain is the greater; at most one of each, in the order front_left,
\* front_right, back
C23_BeltActionsFromDifferences ==
    (called.op = "build_belt_stage" /\ called.enabled_flag) =>
        /\ outcome.value.stage.enabled
        /\ BeltActionsAsClaimed(outcome.value.stage.actions)
        /\ FRONT_SHAFT_GAIN > BACK_SHAFT_GAIN

\* a front action for the right corner of two teeth followed by a back
\* action downwards
C23_Witness ==
    /\ called.op = "build_belt_stage"
    /\ called.enabled_flag
    /\ Len(outcome.value.stage.actions) = 2
    /\ outcome.value.stage.actions[1].identifier = "front_right"
    /\ outcome.value.stage.actions[1].teeth = 2
    /\ outcome.value.stage.actions[2].direction = "down"

\* ---------------------------------------------------------------- belt spreading claims
\* the mesh _apply_belt_adjustments would return for base and actions with
\* the given influence maps
MeshOfSpread(r) == r.heap[r.ref]
SpreadThrough(weights, base, actions) ==
    MeshOfSpread(BeltWeighted(<< base >>, 1, actions, [weights |-> weights, solver |-> weights]))

\* C24: when compute_workflow applies belt actions, the height delta is
\* spread through the belt stage's own smooth falloff maps (1 / (1 + distance)
\* from the corner, biased towards the front edge for front corrections), not
\* through the solver's bilinear corner weight maps
C24_BeltSpreadsThroughFalloff ==
    \A n \in 1 .. Len(returned) :
        (returned[n].data.stages[2].enabled /\ returned[n].data.stages[2].actions # << >>) =>
            /\ returned[n].built[2]
                  = SpreadThrough(FalloffWeights, returned[n].built[1],
                                  returned[n].data.stages[2].actions)
            /\ returned[n].built[2]
                  # SpreadThrough(compute_corner_weights, returned[n].built[1],
                                  returned[n].data.stages[2].actions)

\* ---------------------------------------------------------------- temperature stage claims
\* 1e-6 mm in height units
Epsilon == MM \div 1000000

\* C25: the after_temperature stage is enabled exactly when the deviation of
\* the warped mesh differs from its baseline by more than 1e-6; otherwise it
\* is disabled and carries the warning
\* 'visual_rec.temperature_no_adjustments'; its action list is empty either
\* way, and it is computed whatever the enable_belt / enable_screws /
\* enable_tape flags are
C25_TemperatureEnabledByChange ==
    \A n \in 1 .. Len(returned) :
        /\ Len(returned[n].data.stages) = 5
        /\ returned[n].data.stages[5].key = "after_temperature"
        /\ returned[n].data.stages[5].baseline = compute_stage_deviation(returned[n].built[4])
        /\ returned[n].data.stages[5].deviation = compute_stage_deviation(returned[n].built[5])
        /\ returned[n].data.stages[5].enabled
              <=> Abs(compute_stage_deviation(returned[n].built[5])
                      - compute_stage_deviation(returned[n].built[4])) > Epsilon
        /\ ~returned[n].data.stages[5].enabled
              => returned[n].data.stages[5].warnings
                    = << "visual_rec.temperature_no_adjustments" >>
        /\ returned[n].data.stages[5].actions = << >>

\* a call with the belt, screw and tape stages switched off returned an
\* enabled temperature stage with a warped mesh, after an earlier call
C25_Witness ==
    /\ Len(returned) = 2
    /\ \A k \in 2 .. 4 : ~Latest.data.stages[k].enabled
    /\ Latest.data.stages[5].enabled
    /\ Latest.built[5] # Latest.built[4]

\* C28: in every WorkflowData compute_workflow returns, every stage whose
\* enabled field is false (after_temperature included) has a stored mesh
\* identical to the previous stage's stored mesh, a deviation equal to its
\* baseline and no actions
C28_DisabledStageKeepsMesh ==
    \A n \in 1 .. Len(returned) : \A k \in 2 .. Len(returned[n].data.stages) :
        ~returned[n].data.stages[k].enabled =>
            /\ returned[n].built[k] = returned[n].built[k - 1]
            /\ returned[n].data.stages[k].deviation = returned[n].data.stages[k].baseline
            /\ returned[n].data.stages[k].actions = << >>

\* ---------------------------------------------------------------- solver weight claims
\* C27: after any sequence of compute_workflow and set_screw_config calls
\* the solver's corner_weights are the bilinear maps _compute_corner_weights
\* builds: the belt stage reads them and never replaces or modifies them, so
\* a later screw simulation computes with the same maps
C27_SolverWeightsStayBilinear ==
    /\ corner_weights = compute_corner_weights
    /\ \A n \in 1 .. Len(returned) :
          returned[n].data.stages[2].actions # << >> =>
              returned[n].built[2]
                  = SpreadThrough(corner_weights, returned[n].built[1],
                                  returned[n].data.stages[2].actions)

\* two calls returned whose belt stages both applied actions
C27_Witness ==
    /\ Len(returned) = 2
    /\ returned[1].data.stages[2].actions # << >>
    /\ returned[2].data.stages[2].actions # << >>
    /\ returned[2].data.stages[3].actions # << >>

\* ---------------------------------------------------------------- improvement claims
\* C26: estimate_total_improvement(adjustments) returns (max - min of the
\* bed's current mesh) minus (max - min of the mesh simulate_sequence gives
\* for those adjustments), the reduction of the deviation the workflow
\* stages report
C26_ImprovementIsDeviationReduction ==
    called.op = "estimate_total_improvement" =>
        outcome.value
            = Frac(compute_stage_deviation(heap[bed_mesh_data])
                   - compute_stage_deviation(
                         MeshOfSpread(simulate_sequence(heap, screw_config, corner_weights,
                                                        called.adjustments, bed_mesh_data))),
                   1)

\* ---------------------------------------------------------------- profile claims
\* C29: after any sequence of load_printer_config and switch_profile calls,
\* failing calls and switches to unknown names included, whenever a
\* workspace exists active_profile_name is a key of profiles and the
\* workspace's mesh and bed mesh are those of profiles[active_profile_name]
C29_WorkspaceFollowsActiveProfile ==
    (app.status = "running" /\ app.has_workspace) =>
        /\ HasProfile(app.profiles, app.active_profile_name)
        /\ app.workspace_mesh = app.active_profile_name
        /\ heap[bed_mesh_data] = ProfileNamed(app.profiles, app.active_profile_name).matrix

\* C30: every profile parse_config_file returns, square or not, can be
\* loaded: set_mesh_data on a Bed with mesh_points_x = x_count and
\* mesh_points_y = y_count accepts the profile's matrix
C30_ParsedProfilesLoad ==
    app.status = "running" =>
        /\ \A k \in 1 .. Len(app.profiles) : MeshFits(app.profiles[k])
        /\ (called.op \in {"load_printer_config", "switch_profile"}
               /\ outcome.status = "raised")
              => outcome.error # ValueError("wrong mesh size")

====
